---------------------------- MODULE Spec2Model ----------------------------
(***************************************************************************)
(* A model of the Satisfactory save-game codec: the decoder sav2json.py    *)
(* (binary .sav stream -> document), the encoder json2sav.py               *)
(* (document -> binary stream) and the library decoder topy.py.            *)
(*                                                                         *)
(* Bytes are the integers 0..255.  A Python str is the sequence of its     *)
(* character codes, a bytes object the sequence of its bytes, a dict a     *)
(* record (function on strings) whose DOMAIN is the set of keys present,   *)
(* so that a missing key (KeyError) is a key outside the DOMAIN.           *)
(* A Python exception anywhere in a codec call makes the call fail: the    *)
(* reader and the writer carry an ok flag that, once FALSE, stays FALSE.   *)
(***************************************************************************)
EXTENDS Integers, Sequences, FiniteSets, TLC

\* ------------------------------------------------------------------ bounds
MaxObjects == 1      \* objects (and entities) of an input file or document
MaxTrail == 2        \* bytes after the property list of an entity
MaxCut == 2          \* bytes cut from the end of an input file
MaxCalls == 3        \* calls of a sequence of calls of the writer's primitives
MaxString == 4       \* declared length of a string on disk, and bytes after it

\* --------------------------------------------------------- string literals
S_None == <<78, 111, 110, 101>>  \* "None"
S_IntProperty == <<73, 110, 116, 80, 114, 111, 112, 101, 114, 116, 121>>
S_BoolProperty == <<66, 111, 111, 108, 80, 114, 111, 112, 101, 114, 116, 121>>
S_FloatProperty == <<70, 108, 111, 97, 116, 80, 114, 111, 112, 101, 114, 116, 121>>
S_StrProperty == <<83, 116, 114, 80, 114, 111, 112, 101, 114, 116, 121>>
S_NameProperty == <<78, 97, 109, 101, 80, 114, 111, 112, 101, 114, 116, 121>>
S_TextProperty == <<84, 101, 120, 116, 80, 114, 111, 112, 101, 114, 116, 121>>
S_ByteProperty == <<66, 121, 116, 101, 80, 114, 111, 112, 101, 114, 116, 121>>
S_EnumProperty == <<69, 110, 117, 109, 80, 114, 111, 112, 101, 114, 116, 121>>
S_ObjectProperty == <<79, 98, 106, 101, 99, 116, 80, 114, 111, 112, 101, 114, 116, 121>>
S_StructProperty == <<83, 116, 114, 117, 99, 116, 80, 114, 111, 112, 101, 114, 116, 121>>
S_ArrayProperty == <<65, 114, 114, 97, 121, 80, 114, 111, 112, 101, 114, 116, 121>>
S_MapProperty == <<77, 97, 112, 80, 114, 111, 112, 101, 114, 116, 121>>
S_Vector == <<86, 101, 99, 116, 111, 114>>
S_Rotator == <<82, 111, 116, 97, 116, 111, 114>>
S_Box == <<66, 111, 120>>
S_LinearColor == <<76, 105, 110, 101, 97, 114, 67, 111, 108, 111, 114>>
S_Transform == <<84, 114, 97, 110, 115, 102, 111, 114, 109>>
S_Quat == <<81, 117, 97, 116>>
S_RemovedInstanceArray == <<82, 101, 109, 111, 118, 101, 100, 73, 110, 115, 116, 97, 110, 99, 101, 65, 114, 114, 97, 121>>
S_InventoryStack == <<73, 110, 118, 101, 110, 116, 111, 114, 121, 83, 116, 97, 99, 107>>
S_InventoryItem == <<73, 110, 118, 101, 110, 116, 111, 114, 121, 73, 116, 101, 109>>
S_EGamePhase == <<69, 71, 97, 109, 101, 80, 104, 97, 115, 101>>

VARIABLES
    input,       \* the choices that made the input file or document (a history)
    mode,        \* "decode": sav2json runs on file, then json2sav on its output;
                 \* "encode": json2sav runs on a given document;
                 \* "calls": the primitives of json2sav are called in sequence;
                 \* "string": one string is read from file and written back;
                 \* "library": sav2json runs on file, then topy.to_py on the same file
    file,        \* the bytes of the .sav input of sav2json
    rd,          \* sav2json: the cursor of f, the counter bytesRead, the failure flag
    saveJson,    \* sav2json: the document built so far
    entryCount,  \* sav2json: the object count read from the header
    length,      \* sav2json: declared length of the entity read last
    di,          \* sav2json: objects / entities handled by the current loop
    dpc,         \* sav2json: position in the script
    save_json,   \* json2sav: the document loaded
    wr,          \* json2sav: the output file, the stack buffers, the failure flag
    ei,          \* json2sav: objects / entities handled by the current loop
    epc,         \* json2sav: position in the script
    py,          \* topy.to_py: the cursor of its f, the global bytesRead, the failure flag
    save_dict,   \* topy.to_py: the document built so far
    ppc          \* topy.to_py: position in the function

vars == <<input, mode, file, rd, saveJson, entryCount, length, di, dpc,
          save_json, wr, ei, epc, py, save_dict, ppc>>

\* ------------------------------------------------------------- arithmetic
Min(a, b) == IF a < b THEN a ELSE b

RECURSIVE Flatten(_)
\* the concatenation of a sequence of byte sequences
Flatten(ss) == IF ss = <<>> THEN <<>> ELSE Head(ss) \o Flatten(Tail(ss))

RECURSIVE Repeat(_, _)
Repeat(x, n) == IF n <= 0 THEN <<>> ELSE <<x>> \o Repeat(x, n - 1)

\* struct.pack('i', n): four bytes, little-endian, two's complement
PackInt(n) ==
    LET m == IF n >= 0 THEN n ELSE -(n + 1)
        b0 == m % 256
        b1 == (m \div 256) % 256
        b2 == (m \div 65536) % 256
        b3 == (m \div 16777216) % 256
    IN  IF n >= 0 THEN <<b0, b1, b2, b3>>
        ELSE <<255 - b0, 255 - b1, 255 - b2, 255 - b3>>

\* struct.unpack('i', b)[0] for four bytes b
UnpackInt(b) ==
    IF b[4] < 128
    THEN b[1] + 256 * b[2] + 65536 * b[3] + 16777216 * b[4]
    ELSE -((255 - b[1]) + 256 * (255 - b[2]) + 65536 * (255 - b[3])
           + 16777216 * (255 - b[4])) - 1

\* struct.pack('b', n) / struct.unpack('b', b)[0]
PackByte(n) == <<IF n >= 0 THEN n ELSE n + 256>>

UnpackByte(b) == IF b[1] < 128 THEN b[1] ELSE b[1] - 256

\* sizeof(long) of the platform ('l' in a struct format without a byte-order
\* prefix is the native C long): 8 on the LP64 platforms modelled
NativeLong == 8

\* A float is kept as the four bytes of its IEEE-754 pattern.  Every pattern
\* but a NaN survives unpack -> JSON text -> pack; a NaN is written to JSON as
\* the bare token NaN, which loads as the default quiet NaN 0x7fc00000.
IsNaN(b) == (b[4] % 128 = 127) /\ (b[3] >= 128) /\ (b[1] + b[2] + (b[3] % 128) > 0)

DefaultNaN == <<0, 0, 192, 127>>

UnpackFloat(b) == IF IsNaN(b) THEN DefaultNaN ELSE b

PackFloat(v) == v


\* ---------------------------------------------------- sav2json: primitives
\* The reader: the file f with its cursor pos (f.tell()), the global counter
\* bytesRead, ok (no exception so far), val (the value returned by the last
\* read), more (the return value of read_property), missing (the residual
\* read_entity computed last) and plog, a history of the properties read: for
\* each one its declared length, the bytes consumed after its header, those
\* of them its length field does not cover, and its place f[from+1..to].
\* bound tells whether the global name bytesRead is bound: every primitive
\* declares `global bytesRead` and adds to it, which raises NameError while
\* the module has no such global.  sav2json binds it before its first read.
NewReader(f) ==
    [f |-> f, pos |-> 0, bytesRead |-> 0, bound |-> TRUE, ok |-> TRUE, val |-> 0,
     more |-> FALSE, missing |-> 0, plog |-> <<>>]

\* f.read(k) for k >= 0: at most k bytes, fewer at end of file
FRead(r, k) == SubSeq(r.f, r.pos + 1, Min(r.pos + k, Len(r.f)))

Advance(r, k) == Min(r.pos + k, Len(r.f))

\* assert_fail: prints, waits for input and raises AssertionError
assert_fail(r) == [r EXCEPT !.ok = FALSE]

read_int(r) ==
    IF ~r.ok THEN r
    ELSE IF ~r.bound THEN [r EXCEPT !.ok = FALSE]            \* NameError
    ELSE LET b == FRead(r, 4)
             r1 == [r EXCEPT !.bytesRead = @ + 4, !.pos = Advance(r, 4)]
         IN  IF Len(b) < 4 THEN [r1 EXCEPT !.ok = FALSE]   \* struct.error
             ELSE [r1 EXCEPT !.val = UnpackInt(b)]

read_float(r) ==
    IF ~r.ok THEN r
    ELSE IF ~r.bound THEN [r EXCEPT !.ok = FALSE]            \* NameError
    ELSE LET b == FRead(r, 4)
             r1 == [r EXCEPT !.bytesRead = @ + 4, !.pos = Advance(r, 4)]
         IN  IF Len(b) < 4 THEN [r1 EXCEPT !.ok = FALSE]
             ELSE [r1 EXCEPT !.val = UnpackFloat(b)]

\* struct.unpack('l', f.read(8)): 'l' is the platform's C long, lsize bytes
\* wide; unpack raises unless it is handed exactly lsize bytes.  The value is
\* kept as its eight bytes.
read_long(r, lsize) ==
    IF ~r.ok THEN r
    ELSE IF ~r.bound THEN [r EXCEPT !.ok = FALSE]            \* NameError
    ELSE LET b == FRead(r, 8)
             r1 == [r EXCEPT !.bytesRead = @ + 8, !.pos = Advance(r, 8)]
         IN  IF Len(b) # lsize THEN [r1 EXCEPT !.ok = FALSE]
             ELSE [r1 EXCEPT !.val = b]

read_byte(r) ==
    IF ~r.ok THEN r
    ELSE IF ~r.bound THEN [r EXCEPT !.ok = FALSE]            \* NameError
    ELSE LET b == FRead(r, 1)
             r1 == [r EXCEPT !.bytesRead = @ + 1, !.pos = Advance(r, 1)]
         IN  IF Len(b) < 1 THEN [r1 EXCEPT !.ok = FALSE]
             ELSE [r1 EXCEPT !.val = UnpackByte(b)]

assert_null_byte(r) ==
    IF ~r.ok THEN r
    ELSE IF ~r.bound THEN [r EXCEPT !.ok = FALSE]            \* NameError
    ELSE LET zero == FRead(r, 1)
             r1 == [r EXCEPT !.bytesRead = @ + 1, !.pos = Advance(r, 1)]
         IN  IF zero # <<0>> THEN assert_fail(r1) ELSE r1

IsAscii(chars) == \A k \in 1..Len(chars) : chars[k] < 128

read_length_prefixed_string(r) ==
    LET Checked(r2, chars, zero) ==
            IF zero # <<0>> THEN assert_fail(r2)
            ELSE IF ~IsAscii(chars) THEN [r2 EXCEPT !.ok = FALSE]  \* decode('ascii')
            ELSE [r2 EXCEPT !.val = chars]
        Chars(r0, len) ==
            Checked([r0 EXCEPT !.pos = Advance(r0, len), !.bytesRead = @ + len],
                    FRead(r0, len - 1),
                    SubSeq(r0.f, r0.pos + len, Min(r0.pos + len, Len(r0.f))))
        Length(r0) ==
            IF ~r0.ok THEN r0
            ELSE IF r0.val = 0 THEN [r0 EXCEPT !.val = <<>>]
            ELSE IF r0.val < 0 THEN [r0 EXCEPT !.ok = FALSE]   \* f.read(len - 1): ValueError
            ELSE Chars(r0, r0.val)
    IN  IF ~r.ok THEN r ELSE Length(read_int(r))

\* format(i, '02x'): two lower-case hexadecimal digits
HexDigit(d) == IF d < 10 THEN 48 + d ELSE 87 + d

\* the loop of read_hex over chars from its c-th byte on: each byte gives two
\* digits and a space, and one more space after every fourth byte but the
\* last ones (c < count - 1, count being the number of bytes asked for)
HexText(chars, c, count) ==
    LET Extra(i) == i % 4 = 0 /\ i < count - 1
        \* the number of characters the bytes c..i-1 give
        Start(i) == 3 * (i - c) + Cardinality({m \in c..(i - 1) : Extra(m)})
        ByteAt(j) == CHOOSE i \in c..Len(chars) : Start(i) < j /\ j <= Start(i + 1)
        Char(i, k) == IF k = 1 THEN HexDigit(chars[i] \div 16)
                      ELSE IF k = 2 THEN HexDigit(chars[i] % 16)
                      ELSE 32
    IN  [j \in 1..Start(Len(chars) + 1) |-> Char(ByteAt(j), j - Start(ByteAt(j)))]

\* read_hex(count), count >= 0: the counter grows by count whatever f.read returns
\* read_hex as it would be if it left the counter alone
read_hex_uncounted(r, count) ==
    IF ~r.ok THEN r
    ELSE LET chars == FRead(r, count)
         IN  [r EXCEPT !.pos = Advance(r, count), !.val = HexText(chars, 1, count)]

read_hex(r, count) ==
    IF ~r.ok THEN r
    ELSE IF ~r.bound THEN [r EXCEPT !.ok = FALSE]            \* NameError
    ELSE LET chars == FRead(r, count)
         IN  [r EXCEPT !.bytesRead = @ + count, !.pos = Advance(r, count),
                       !.val = HexText(chars, 1, count)]

\* -------------------------------------------------------- Python dicts
\* d[k] = v on a dict d
Put(d, k, v) == [x \in (DOMAIN d) \cup {k} |-> IF x = k THEN v ELSE d[x]]

Has(d, k) == k \in DOMAIN d

\* A dict with integer keys (the values of a MapProperty) is the sequence of
\* its items in insertion order; values[key] = props replaces the value of a
\* key already present and appends a new item otherwise.
DictSet(items, key, v) ==
    IF \E k \in 1..Len(items) : items[k].key = key
    THEN [k \in 1..Len(items) |->
             IF items[k].key = key THEN [key |-> key, value |-> v] ELSE items[k]]
    ELSE Append(items, [key |-> key, value |-> v])

\* The value of a ByteProperty's unk2 is an int in some documents and a str in
\* others; it carries its Python type, which the operations applied to it
\* depend on.
PyInt(n) == [t |-> "int", v |-> n]

PyStr(str) == [t |-> "str", v |-> str]

\* ------------------------------------------------- sav2json: read_property
RECURSIVE ReadFloats(_, _, _)
\* n successive read_float calls; val is the sequence of the values read
ReadFloats(r, n, acc) ==
    IF ~r.ok THEN r
    ELSE IF n = 0 THEN [r EXCEPT !.val = acc]
    ELSE LET r1 == read_float(r)
         IN  IF ~r1.ok THEN r1 ELSE ReadFloats(r1, n - 1, Append(acc, r1.val))

\* two successive strings, returned as {'level_name': ..., 'path_name': ...}
ReadLevelPath(r) ==
    LET r1 == read_length_prefixed_string(r)
        r2 == read_length_prefixed_string(r1)
    IN  IF ~r2.ok THEN r2
        ELSE [r2 EXCEPT !.val = [level_name |-> r1.val, path_name |-> r2.val]]

RECURSIVE ReadLevelPaths(_, _, _)
\* for j in range(0, count): values.append({level_name, path_name})
ReadLevelPaths(r, count, acc) ==
    IF ~r.ok THEN r
    ELSE IF count <= 0 THEN [r EXCEPT !.val = acc]
    ELSE LET r1 == ReadLevelPath(r)
         IN  IF ~r1.ok THEN r1 ELSE ReadLevelPaths(r1, count - 1, Append(acc, r1.val))

RECURSIVE ReadInts(_, _, _)
\* for i in range(0, count): values.append(read_int())
ReadInts(r, count, acc) ==
    IF ~r.ok THEN r
    ELSE IF count <= 0 THEN [r EXCEPT !.val = acc]
    ELSE LET r1 == read_int(r)
         IN  IF ~r1.ok THEN r1 ELSE ReadInts(r1, count - 1, Append(acc, r1.val))

RECURSIVE read_property(_), ReadPropertyList(_, _), ReadStructElements(_, _, _),
          ReadMapEntries(_, _, _), ReadStructBody(_, _, _), ReadArrayBody(_, _, _, _),
          ReadPropertyBody(_, _, _)

\* props = []; while read_property(props): pass
ReadPropertyList(r, props) ==
    LET Loop(r1) ==
            IF ~r1.ok THEN r1
            ELSE IF ~r1.more THEN [r1 EXCEPT !.val = props]
            ELSE ReadPropertyList(r1, Append(props, r1.val))
    IN  Loop(read_property(r))

\* the elements of an array of structs: count property lists
ReadStructElements(r, count, acc) ==
    IF ~r.ok THEN r
    ELSE IF count <= 0 THEN [r EXCEPT !.val = acc]
    ELSE LET Element(r1) ==
                 IF ~r1.ok THEN r1
                 ELSE ReadStructElements(r1, count - 1,
                                         Append(acc, [properties |-> r1.val]))
         IN  Element(ReadPropertyList(r, <<>>))

\* the entries of a MapProperty: count times a key and a property list
ReadMapEntries(r, count, values) ==
    IF ~r.ok THEN r
    ELSE IF count <= 0 THEN [r EXCEPT !.val = values]
    ELSE LET r1 == read_int(r)                       \* key
             Entry(r2) ==
                 IF ~r2.ok THEN r2
                 ELSE ReadMapEntries(r2, count - 1, DictSet(values, r1.val, r2.val))
         IN  Entry(ReadPropertyList(r1, <<>>))

\* The body of a StructProperty after the 17 unknown bytes.  val is
\* [value, unc]: the dict stored as property['value'] and the number of the
\* bytes read here that the length field of the property does not cover.
ReadStructBody(r, type, unc0) ==
    LET Props(r1) ==
            IF ~r1.ok THEN r1
            ELSE [r1 EXCEPT !.val = [unc |-> unc0, value |->
                     [type |-> type, properties |-> r1.val]]]
    IN
    IF ~r.ok THEN r
    ELSE CASE type = S_Vector \/ type = S_Rotator ->
        LET r1 == ReadFloats(r, 3, <<>>)
        IN  IF ~r1.ok THEN r1
            ELSE [r1 EXCEPT !.val = [unc |-> unc0, value |->
                     [type |-> type, x |-> r1.val[1], y |-> r1.val[2], z |-> r1.val[3]]]]
      [] type = S_Box ->
        LET r1 == ReadFloats(r, 6, <<>>)
            r2 == read_byte(r1)
        IN  IF ~r2.ok THEN r2
            ELSE [r2 EXCEPT !.val = [unc |-> unc0, value |->
                     [type |-> type, min |-> SubSeq(r1.val, 1, 3),
                      max |-> SubSeq(r1.val, 4, 6), is_valid |-> r2.val]]]
      [] type = S_LinearColor ->
        LET r1 == ReadFloats(r, 4, <<>>)
        IN  IF ~r1.ok THEN r1
            ELSE [r1 EXCEPT !.val = [unc |-> unc0, value |->
                     [type |-> type, r |-> r1.val[1], g |-> r1.val[2],
                      b |-> r1.val[3], a |-> r1.val[4]]]]
      [] type = S_Transform -> Props(ReadPropertyList(r, <<>>))
      [] type = S_Quat ->
        LET r1 == ReadFloats(r, 4, <<>>)
        IN  IF ~r1.ok THEN r1
            ELSE [r1 EXCEPT !.val = [unc |-> unc0, value |->
                     [type |-> type, a |-> r1.val[1], b |-> r1.val[2],
                      c |-> r1.val[3], d |-> r1.val[4]]]]
      [] type = S_RemovedInstanceArray \/ type = S_InventoryStack ->
        Props(ReadPropertyList(r, <<>>))
      [] type = S_InventoryItem ->
        \* unk1, item_name, level_name, path_name, then one property: the None
        \* after it is not consumed here
        LET r1 == read_length_prefixed_string(r)     \* unk1
            r2 == read_length_prefixed_string(r1)    \* item_name
            r3 == read_length_prefixed_string(r2)    \* level_name
            r4 == read_length_prefixed_string(r3)    \* path_name
            Item(r5) ==
                IF ~r5.ok THEN r5
                ELSE [r5 EXCEPT !.val =
                         [unc |-> unc0 + (r1.bytesRead - r.bytesRead)
                                       + (r5.bytesRead - r4.bytesRead) - 4,
                          value |-> [type |-> type, unk1 |-> r1.val,
                                     item_name |-> r2.val, level_name |-> r3.val,
                                     path_name |-> r4.val,
                                     properties |-> IF r5.more THEN <<r5.val>>
                                                    ELSE <<>>]]]
        IN  Item(read_property(r4))
      [] OTHER -> assert_fail(r)

\* The body of an ArrayProperty after its count.  val is the property.
ReadArrayBody(r, property, item_type, count) ==
    LET Done(r9, prop9) ==
            [r9 EXCEPT !.val = Put(prop9, "value",
                                   [type |-> item_type, values |-> r9.val])]
    IN  IF ~r.ok THEN r
        ELSE IF item_type = S_ObjectProperty THEN
            LET r1 == ReadLevelPaths(r, count, <<>>)
            IN  IF ~r1.ok THEN r1 ELSE Done(r1, property)
        ELSE IF item_type = S_StructProperty THEN
            LET r1 == read_length_prefixed_string(r)     \* struct_name
                r2 == read_length_prefixed_string(r1)    \* struct_type
                r3 == read_int(r2)                       \* structSize
                r4 == read_int(r3)                       \* zero
                r5 == read_length_prefixed_string(r4)    \* structInnerType
                r6 == read_hex(r5, 17)                   \* structUnknown
                Elements(r7) ==
                    IF ~r7.ok THEN r7
                    ELSE Done(r7, Put(Put(Put(Put(Put(property,
                                 "struct_name", r1.val), "struct_type", r2.val),
                                 "structInnerType", r5.val), "structUnknown", r6.val),
                                 "_structLength", r3.val))
            IN  IF ~r4.ok THEN r4
                ELSE IF r4.val # 0 THEN assert_fail(r4)
                ELSE Elements(ReadStructElements(r6, count, <<>>))
        ELSE IF item_type = S_IntProperty THEN
            LET r1 == ReadInts(r, count, <<>>)
            IN  IF ~r1.ok THEN r1 ELSE Done(r1, property)
        ELSE assert_fail(r)

\* The dispatch of read_property on the type tag prop, after the header.
\* val is [property, unc]: the finished property and the number of the bytes
\* read after the header that its length field does not cover (reserved
\* bytes, type discriminators, and for an InventoryItem all but 4 of the
\* bytes of the inner property).
ReadPropertyBody(r, prop, property) ==
    LET Out(r9, p9, u9) == [r9 EXCEPT !.val = [property |-> p9, unc |-> u9]]
        Used(ra, rb) == rb.bytesRead - ra.bytesRead
    IN
    CASE prop = S_IntProperty ->
        LET r1 == assert_null_byte(r)
            r2 == read_int(r1)
        IN  IF ~r2.ok THEN r2 ELSE Out(r2, Put(property, "value", r2.val), 1)
      [] prop = S_StrProperty ->
        LET r1 == assert_null_byte(r)
            r2 == read_length_prefixed_string(r1)
        IN  IF ~r2.ok THEN r2 ELSE Out(r2, Put(property, "value", r2.val), 1)
      [] prop = S_StructProperty ->
        LET r1 == read_length_prefixed_string(r)     \* type
            r2 == read_hex(r1, 17)                   \* structUnknown
            Body(r3) ==
                IF ~r3.ok THEN r3
                ELSE Out(r3, Put(Put(property, "structUnknown", r2.val),
                                 "value", r3.val.value), r3.val.unc)
        IN  Body(ReadStructBody(r2, r1.val, Used(r, r2)))
      [] prop = S_ArrayProperty ->
        LET r1 == read_length_prefixed_string(r)     \* item_type
            r2 == assert_null_byte(r1)
            r3 == read_int(r2)                       \* count
            Body(r4) == IF ~r4.ok THEN r4 ELSE Out(r4, r4.val, Used(r, r2))
        IN  Body(ReadArrayBody(r3, property, r1.val, r3.val))
      [] prop = S_ObjectProperty ->
        LET r1 == assert_null_byte(r)
            r2 == ReadLevelPath(r1)
        IN  IF ~r2.ok THEN r2 ELSE Out(r2, Put(property, "value", r2.val), 1)
      [] prop = S_BoolProperty ->
        LET r1 == read_byte(r)
            r2 == assert_null_byte(r1)
        IN  IF ~r2.ok THEN r2 ELSE Out(r2, Put(property, "value", r1.val), 2)
      [] prop = S_FloatProperty ->
        LET r1 == assert_null_byte(r)
            r2 == read_float(r1)
        IN  IF ~r2.ok THEN r2 ELSE Out(r2, Put(property, "value", r2.val), 1)
      [] prop = S_EnumProperty ->
        LET r1 == read_length_prefixed_string(r)    \* enum_name
            r2 == assert_null_byte(r1)
            r3 == read_length_prefixed_string(r2)   \* value_name
        IN  IF ~r3.ok THEN r3
            ELSE Out(r3, Put(property, "value", [enum |-> r1.val, value |-> r3.val]),
                     Used(r, r2))
      [] prop = S_NameProperty ->
        LET r1 == assert_null_byte(r)
            r2 == read_length_prefixed_string(r1)
        IN  IF ~r2.ok THEN r2 ELSE Out(r2, Put(property, "value", r2.val), 1)
      [] prop = S_MapProperty ->
        LET r1 == read_length_prefixed_string(r)     \* name
            r2 == read_length_prefixed_string(r1)    \* value_type
            r3 == assert_null_byte(assert_null_byte(assert_null_byte(
                      assert_null_byte(assert_null_byte(r2)))))
            r4 == read_int(r3)                       \* count
            Entries(r5) ==
                IF ~r5.ok THEN r5
                ELSE Out(r5, Put(property, "value",
                                 [name |-> r1.val, type |-> r2.val, values |-> r5.val]),
                         Used(r, r2) + 1)
        IN  Entries(ReadMapEntries(r4, r4.val, <<>>))
      [] prop = S_ByteProperty ->
        LET r1 == read_length_prefixed_string(r)    \* unk1
            r2 == assert_null_byte(r1)
            r3 == IF r1.val = S_None THEN read_byte(r2)
                  ELSE read_length_prefixed_string(r2)
        IN  IF ~r3.ok THEN r3
            ELSE Out(r3, Put(property, "value",
                             [unk1 |-> r1.val,
                              unk2 |-> IF r1.val = S_None THEN PyInt(r3.val)
                                       ELSE PyStr(r3.val)]),
                     Used(r, r2))
      [] prop = S_TextProperty ->
        LET r1 == assert_null_byte(r)
            r2 == read_hex(r1, 13)
            r3 == read_length_prefixed_string(r2)
        IN  IF ~r3.ok THEN r3
            ELSE Out(r3, Put(Put(property, "textUnknown", r2.val), "value", r3.val), 1)
      [] OTHER -> assert_fail(r)

\* read_property(properties): more is the value returned (None for the
\* sentinel, True otherwise) and val the property appended to properties.
read_property(r) ==
    LET r1 == read_length_prefixed_string(r)         \* name
        r2 == read_length_prefixed_string(r1)        \* prop
        r3 == read_int(r2)                           \* length
        r4 == read_int(r3)                           \* zero
        Body(r5) ==
            IF ~r5.ok THEN r5
            ELSE [r5 EXCEPT !.more = TRUE, !.val = r5.val.property,
                            !.plog = Append(@, [type |-> r2.val,
                                                declared |-> r3.val,
                                                consumed |-> r5.bytesRead - r4.bytesRead,
                                                uncounted |-> r5.val.unc,
                                                from |-> r.pos, to |-> r5.pos,
                                                property |-> r5.val.property])]
    IN  IF ~r1.ok THEN r1
        ELSE IF r1.val = S_None THEN [r1 EXCEPT !.more = FALSE]
        ELSE IF ~r4.ok THEN r4
        ELSE IF r4.val # 0 THEN assert_fail(r4)
        ELSE Body(ReadPropertyBody(r4, r2.val, [name |-> r1.val, type |-> r2.val,
                                                _length |-> r3.val]))

\* ------------------------------------------- sav2json: objects, entities
\* read_actor: val is the actor dict
read_actor(r) ==
    LET r1 == read_length_prefixed_string(r)
        r2 == read_length_prefixed_string(r1)
        r3 == read_length_prefixed_string(r2)
        r4 == read_int(r3)
        r5 == ReadFloats(r4, 10, <<>>)
        r6 == read_int(r5)
    IN  IF ~r6.ok THEN r6
        ELSE [r6 EXCEPT !.val =
                 [type |-> 1, class_name |-> r1.val, level_name |-> r2.val,
                  path_name |-> r3.val, need_transform |-> r4.val,
                  transform |-> [rotation |-> SubSeq(r5.val, 1, 4),
                                 translation |-> SubSeq(r5.val, 5, 7),
                                 scale3d |-> SubSeq(r5.val, 8, 10)],
                  was_placed_in_level |-> r6.val]]

\* read_object: val is the object dict
read_object(r) ==
    LET r1 == read_length_prefixed_string(r)
        r2 == read_length_prefixed_string(r1)
        r3 == read_length_prefixed_string(r2)
        r4 == read_length_prefixed_string(r3)
    IN  IF ~r4.ok THEN r4
        ELSE [r4 EXCEPT !.val =
                 [type |-> 0, class_name |-> r1.val, level_name |-> r2.val,
                  path_name |-> r3.val, outer_path_name |-> r4.val]]

\* The part of read_entity before the residual is computed: the counter is
\* reset, then names, children and properties are read.  val is the entity.
ReadEntityContent(r, with_names) ==
    LET r0 == [r EXCEPT !.bytesRead = 0, !.bound = TRUE]
        r1 == read_length_prefixed_string(r0)       \* level_name
        r2 == read_length_prefixed_string(r1)       \* path_name
        r3 == read_int(r2)                          \* child_count
        r4 == ReadLevelPaths(r3, r3.val, <<>>)      \* children
        Properties(r5) ==
            IF ~r5.ok THEN r5
            ELSE IF with_names
            THEN [r5 EXCEPT !.val = [level_name |-> r1.val, path_name |-> r2.val,
                                     children |-> r4.val, properties |-> r5.val]]
            ELSE [r5 EXCEPT !.val = [properties |-> r5.val]]
    IN  IF ~r.ok THEN r
        ELSE Properties(ReadPropertyList(IF with_names THEN r4 ELSE r0, <<>>))

\* read_entity(with_names, length): val is the entity
read_entity(r, with_names, len) ==
    LET Trailing(entity, r3) == [r3 EXCEPT !.val = Put(entity, "missing", r3.val)]
        Missing(r2, missing) ==
            IF missing > 0 THEN Trailing(r2.val, read_hex(r2, missing))
            ELSE IF missing < 0 THEN assert_fail(r2)
            ELSE r2
        Content(r1) ==
            IF ~r1.ok THEN r1
            ELSE Missing([r1 EXCEPT !.missing = len - r1.bytesRead], len - r1.bytesRead)
    IN  Content(ReadEntityContent(r, with_names))

\* --------------------------------------------------- sav2json: the script
DPc(r, next) == IF r.ok THEN next ELSE "failed"

\* lines 116-146: the header is read and saveJson created
ReadHeader ==
    /\ dpc = "header"
    /\ LET r1 == read_int(rd)                        \* saveHeaderType
           r2 == read_int(r1)                        \* saveVersion
           r3 == read_int(r2)                        \* buildVersion
           r4 == read_length_prefixed_string(r3)     \* mapName
           r5 == read_length_prefixed_string(r4)     \* mapOptions
           r6 == read_length_prefixed_string(r5)     \* sessionName
           r7 == read_int(r6)                        \* playDurationSeconds
           r8 == read_long(r7, NativeLong)           \* saveDateTime
           r9 == read_byte(r8)                       \* sessionVisibility
           r10 == read_int(r9)                       \* entryCount
       IN  /\ rd' = r10
           /\ dpc' = DPc(r10, "objects")
           /\ IF r10.ok
              THEN /\ entryCount' = r10.val
                   /\ saveJson' = [saveHeaderType |-> r1.val, saveVersion |-> r2.val,
                                   buildVersion |-> r3.val, mapName |-> r4.val,
                                   mapOptions |-> r5.val, sessionName |-> r6.val,
                                   playDurationSeconds |-> r7.val,
                                   saveDateTime |-> r8.val,
                                   sessionVisibility |-> r9.val, objects |-> <<>>]
              ELSE UNCHANGED <<entryCount, saveJson>>
    /\ di' = 0
    /\ UNCHANGED <<input, mode, file, length, save_json, wr, ei, epc>>
    /\ UNCHANGED <<py, save_dict, ppc>>

\* lines 199-206: one iteration of the loop over the object table
ReadObjectEntry ==
    /\ dpc = "objects"
    /\ di < entryCount
    /\ LET r1 == read_int(rd)                        \* type
       IN  /\ rd' = IF ~r1.ok THEN r1
                    ELSE IF r1.val = 1 THEN read_actor(r1)
                    ELSE IF r1.val = 0 THEN read_object(r1)
                    ELSE assert_fail(r1)
           /\ dpc' = DPc(rd', "objects")
           /\ saveJson' = IF rd'.ok
                          THEN [saveJson EXCEPT !.objects = Append(@, rd'.val)]
                          ELSE saveJson
    /\ di' = di + 1
    /\ UNCHANGED <<input, mode, file, entryCount, length, save_json, wr, ei, epc>>
    /\ UNCHANGED <<py, save_dict, ppc>>

\* lines 208-213: the second count must equal the first
ReadElementCount ==
    /\ dpc = "objects"
    /\ di >= entryCount
    /\ LET r1 == read_int(rd)                        \* elementCount
           r2 == IF r1.ok /\ r1.val # entryCount THEN assert_fail(r1) ELSE r1
       IN  /\ rd' = r2
           /\ dpc' = DPc(r2, "entities")
    /\ di' = 0
    /\ UNCHANGED <<input, mode, file, saveJson, entryCount, length, save_json, wr, ei, epc>>
    /\ UNCHANGED <<py, save_dict, ppc>>

\* lines 485-490: one iteration of the loop over the entities
ReadEntityEntry ==
    /\ dpc = "entities"
    /\ di < entryCount
    /\ LET r1 == read_int(rd)                        \* length
       IN  /\ rd' = read_entity(r1, saveJson.objects[di + 1].type = 1, r1.val)
           /\ dpc' = DPc(rd', "entities")
           /\ length' = IF r1.ok THEN r1.val ELSE length
           /\ saveJson' = IF rd'.ok
                          THEN [saveJson EXCEPT !.objects[di + 1] =
                                                    Put(@, "entity", rd'.val)]
                          ELSE saveJson
    /\ di' = di + 1
    /\ UNCHANGED <<input, mode, file, entryCount, save_json, wr, ei, epc>>
    /\ UNCHANGED <<py, save_dict, ppc>>

\* lines 493-505: the rest of the file is kept and the document written out
ReadMissing ==
    /\ dpc = "entities"
    /\ di >= entryCount
    /\ LET r1 == read_hex(rd, Len(file) - rd.pos)
       IN  /\ rd' = r1
           /\ dpc' = DPc(r1, "done")
           /\ saveJson' = Put(saveJson, "missing", r1.val)
    /\ UNCHANGED <<input, mode, file, entryCount, length, di, save_json, wr, ei, epc>>
    /\ UNCHANGED <<py, save_dict, ppc>>

\* ------------------------------------------------------- the input files
\* The .sav inputs are assembled from the layout of the format: a header, an
\* object table, the entity blocks and the bytes after them.
B_Str(str) == IF str = <<>> THEN PackInt(0) ELSE PackInt(Len(str) + 1) \o str \o <<0>>

B_One == <<0, 0, 128, 63>>        \* the float 1.0

B_Two == <<0, 0, 0, 64>>          \* the float 2.0

B_SNaN == <<1, 0, 128, 127>>      \* a NaN that is not the default one

B_Hex17 == <<1, 2, 3, 4, 5, 6, 7, 8, 9, 10, 11, 12, 13, 14, 15, 16, 255>>

B_Hex13 == <<0, 0, 0, 0, 1, 0, 0, 0, 171, 0, 0, 0, 0>>

\* a property: name, type tag, declared length, reserved i32, payload
B_Prop(name, type, declared, payload) ==
    B_Str(name) \o B_Str(type) \o PackInt(declared) \o PackInt(0) \o payload

B_Int(name, declared, v) == B_Prop(name, S_IntProperty, declared, <<0>> \o PackInt(v))

B_Struct(name, declared, type, body) ==
    B_Prop(name, S_StructProperty, declared, B_Str(type) \o B_Hex17 \o body)

B_None == B_Str(S_None)

B_IntX == B_Int(<<88>>, 4, 42)

B_IntY == B_Int(<<89>>, 4, -2)

\* an InventoryItem struct with its inner property: the declared length covers
\* the three counted strings and 4 bytes of the inner property
B_Item(inner) ==
    B_Struct(<<73>>, 4 + 6 + 6 + 4, S_InventoryItem,
             B_Str(<<>>) \o B_Str(<<105>>) \o B_Str(<<108>>) \o B_Str(<<>>) \o inner)

\* the element lists of an array of structs, with their prelude
B_Elements(elems) ==
    PackInt(Len(elems)) \o PackInt(0) \o B_Str(<<86>>) \o B_Hex17 \o elems

\* The property lists an entity of an input file may hold (without the None
\* that ends the list); valid tells whether the bytes follow the format.
Valid(bytes) == [valid |-> TRUE, bytes |-> bytes]

Invalid(bytes) == [valid |-> FALSE, bytes |-> bytes]

PropertyLists == <<
    Valid(<<>>),
    Valid(B_IntX),
    Valid(B_IntX \o B_IntY),
    Invalid(B_Int(<<88>>, 7, 42)),                                       \* stale length
    Valid(B_Prop(<<98>>, S_BoolProperty, 0, <<1, 0>>)),
    Valid(B_Prop(<<102>>, S_FloatProperty, 4, <<0>> \o B_One)),
    Valid(B_Prop(<<102>>, S_FloatProperty, 4, <<0>> \o B_SNaN)),
    Valid(B_Prop(<<115>>, S_StrProperty, 7, <<0>> \o B_Str(<<97, 98>>))),
    Valid(B_Prop(<<115>>, S_StrProperty, 5, <<0>> \o PackInt(1) \o <<0>>)), \* lone NUL
    Valid(B_Prop(<<110>>, S_NameProperty, 4, <<0>> \o B_Str(<<>>))),
    Valid(B_Prop(<<116>>, S_TextProperty, 19, <<0>> \o B_Hex13 \o B_Str(<<116>>))),
    Valid(B_Prop(<<121>>, S_ByteProperty, 1, B_Str(S_None) \o <<0, 3>>)),
    Valid(B_Prop(<<121>>, S_ByteProperty, 6, B_Str(S_EGamePhase) \o <<0>> \o B_Str(<<112>>))),
    Valid(B_Prop(<<121>>, S_ByteProperty, 6, B_Str(<<81>>) \o <<0>> \o B_Str(<<114>>))),
    Valid(B_Prop(<<101>>, S_EnumProperty, 6, B_Str(<<69>>) \o <<0>> \o B_Str(<<118>>))),
    Valid(B_Prop(<<111>>, S_ObjectProperty, 10, <<0>> \o B_Str(<<108>>) \o B_Str(<<>>))),
    Valid(B_Struct(<<118>>, 12, S_Vector, B_One \o B_Two \o B_One)),
    Valid(B_Struct(<<118>>, 12, S_Rotator, B_One \o B_Two \o B_One)),
    Valid(B_Struct(<<118>>, 25, S_Box, B_One \o B_One \o B_One \o B_Two \o B_Two \o B_Two \o <<1>>)),
    Valid(B_Struct(<<118>>, 16, S_LinearColor, B_One \o B_Two \o B_One \o B_Two)),
    Valid(B_Struct(<<118>>, 16, S_Quat, B_One \o B_Two \o B_One \o B_Two)),
    Valid(B_Struct(<<118>>, Len(B_IntX) + 9, S_Transform, B_IntX \o B_None)),
    Valid(B_Struct(<<118>>, 9, S_RemovedInstanceArray, B_None)),
    Valid(B_Struct(<<118>>, Len(B_Item(B_IntX)) + 9, S_InventoryStack, B_Item(B_IntX) \o B_None)),
    Valid(B_Item(B_IntX)),
    Invalid(B_Item(<<>>)),                                  \* the item ends its list
    Invalid(B_Struct(<<118>>, 0, <<90>>, <<>>)),                          \* unknown struct type
    Valid(B_Prop(<<97>>, S_ArrayProperty, 12, B_Str(S_IntProperty) \o <<0>> \o PackInt(2)
                                        \o PackInt(7) \o PackInt(-1))),
    Valid(B_Prop(<<97>>, S_ArrayProperty, 16, B_Str(S_ObjectProperty) \o <<0>> \o PackInt(1)
                                        \o B_Str(<<108>>) \o B_Str(<<112>>))),
    Valid(B_Prop(<<97>>, S_ArrayProperty, 4 + 6 + 19 + 4 + 27 + 2 * Len(B_IntX) + 18,
           B_Str(S_StructProperty) \o <<0>> \o PackInt(2) \o B_Str(<<110>>)
           \o B_Str(S_StructProperty)
           \o B_Elements(B_IntX \o B_None \o B_IntX \o B_None))),
    Invalid(B_Prop(<<97>>, S_ArrayProperty, 4, B_Str(<<90>>) \o <<0>> \o PackInt(0))), \* unknown item type
    Valid(B_Prop(<<109>>, S_MapProperty, 4 + 4 + 4 + Len(B_IntX) + 9,
           B_Str(S_IntProperty) \o B_Str(S_StructProperty) \o <<0, 0, 0, 0, 0>>
           \o PackInt(1) \o PackInt(5) \o B_IntX \o B_None)),
    Valid(B_Prop(<<109>>, S_MapProperty, 4 + 4 + 2 * (4 + 9) + Len(B_IntX),
           B_Str(S_IntProperty) \o B_Str(S_StructProperty) \o <<0, 0, 0, 0, 0>>
           \o PackInt(2) \o PackInt(5) \o B_IntX \o B_None \o PackInt(5) \o B_None)),
    Invalid(B_Prop(<<117>>, <<90>>, 0, <<>>)),                           \* unknown type tag
    Invalid(B_Str(<<88>>) \o B_Str(S_IntProperty) \o PackInt(4) \o PackInt(1)
            \o <<0>> \o PackInt(42)),                         \* reserved i32 not zero
    Valid(B_Prop(<<109>>, S_MapProperty, 4 + 4 + 2 * (4 + 9) + Len(B_IntX),
           B_Str(S_IntProperty) \o B_Str(S_StructProperty) \o <<0, 0, 0, 0, 0>>
           \o PackInt(2) \o PackInt(5) \o B_IntX \o B_None \o PackInt(-3) \o B_None))
>>

B_Header ==
    PackInt(5) \o PackInt(17) \o PackInt(66297) \o B_Str(<<109>>) \o B_Str(<<>>)
    \o B_Str(<<115>>) \o PackInt(60) \o <<0, 1, 2, 3, 4, 5, 6, 8>> \o <<1>>

\* the record of an object in the object table: kind 1 is an Actor, 0 a Reference
B_Object(kind) ==
    PackInt(kind) \o B_Str(<<67>>) \o B_Str(<<76>>) \o B_Str(<<80>>)
    \o (IF kind = 1
        THEN PackInt(1) \o Flatten(Repeat(B_One, 10)) \o PackInt(1)
        ELSE B_Str(<<79>>))

\* the entity block of an object: declared length, optional names and
\* children, the properties, None, and trail unknown bytes; the declared
\* length is the true one plus off
B_Entity(kind, props, trail, off) ==
    LET content == (IF kind = 1
                    THEN B_Str(<<76>>) \o B_Str(<<80>>) \o PackInt(1)
                         \o B_Str(<<>>) \o B_Str(<<99>>)
                    ELSE <<>>)
                   \o props \o B_None \o Repeat(170, trail)
    IN  PackInt(Len(content) + off) \o content

\* A file of n objects: the entities before the last are plain ones, the last
\* is the one described by kind, props, trail and off; tail bytes follow the
\* entities and cut bytes are then cut from the end of the file.
B_File(n, kind, props, trail, off, tail, cut) ==
    LET all == B_Header \o PackInt(n)
               \o Flatten([k \in 1..n |-> B_Object(IF k = n THEN kind ELSE 1 - kind)])
               \o PackInt(n)
               \o Flatten([k \in 1..n |->
                              IF k = n THEN B_Entity(kind, props, trail, off)
                              ELSE B_Entity(1 - kind, B_IntX, 0, 0)])
               \o Repeat(187, tail)
    IN  SubSeq(all, 1, Len(all) - cut)

\* ---------------------------------------------------- json2sav: primitives
\* The writer: out (the bytes written to the output file), buffers (the stack
\* of length frames, each the list buffer of the chunks written into it, its
\* counted length, and bytes, the concatenation of the chunks), ok (no
\* exception so far), val (the value returned by the last call) and log, a
\* history of the length fields written, and printed, the pairs of lengths
\* the length checks printed.
NewWriter == [out |-> <<>>, buffers |-> <<>>, ok |-> TRUE, val |-> 0, log |-> <<>>,
              printed |-> <<>>]

\* write(bytes, count)
\* write as it would be if it counted every chunk, whatever count says
write_counting_all(w, bytes, count) ==
    IF ~w.ok THEN w
    ELSE IF Len(w.buffers) = 0 THEN [w EXCEPT !.out = @ \o bytes]
    ELSE LET top == Len(w.buffers)
         IN  [w EXCEPT !.buffers[top].buffer = Append(@, bytes),
                       !.buffers[top].bytes = @ \o bytes,
                       !.buffers[top].length = @ + Len(bytes)]

write(w, bytes, count) ==
    IF ~w.ok THEN w
    ELSE IF Len(w.buffers) = 0 THEN [w EXCEPT !.out = @ \o bytes]
    ELSE LET top == Len(w.buffers)
         IN  [w EXCEPT !.buffers[top].buffer = Append(@, bytes),
                       !.buffers[top].bytes = @ \o bytes,
                       !.buffers[top].length = IF count THEN @ + Len(bytes) ELSE @]

\* for b in chunks: write(b, count), where flat is the concatenation of chunks
WriteEach(w, chunks, flat, count) ==
    IF ~w.ok THEN w
    ELSE IF Len(w.buffers) = 0 THEN [w EXCEPT !.out = @ \o flat]
    ELSE LET top == Len(w.buffers)
         IN  [w EXCEPT !.buffers[top].buffer = @ \o chunks,
                       !.buffers[top].bytes = @ \o flat,
                       !.buffers[top].length = IF count THEN @ + Len(flat) ELSE @]

add_buffer(w) ==
    IF ~w.ok THEN w
    ELSE [w EXCEPT !.buffers = Append(@, [buffer |-> <<>>, length |-> 0, bytes |-> <<>>])]

\* struct.pack('i', value) raises outside the range of an i32
write_int(w, value, count) ==
    IF value < -2147483647 - 1 \/ value > 2147483647 THEN [w EXCEPT !.ok = FALSE]
    ELSE write(w, PackInt(value), count)

write_float(w, value) == write(w, PackFloat(value), TRUE)

\* struct.pack('l', value): the value is kept as its eight bytes
write_long(w, value) == write(w, value, TRUE)

\* struct.pack('b', value) raises outside -128..127
write_byte(w, value, count) ==
    IF value < -128 \/ value > 127 THEN [w EXCEPT !.ok = FALSE]
    ELSE write(w, PackByte(value), count)

\* write_length_prefixed_string as it would be if it wrote len(value) as the
\* length of a non-empty value
write_string_short_length(w, value, count) ==
    IF ~w.ok THEN w
    ELSE IF Len(value) = 0 THEN write_int(w, 0, count)
    ELSE IF ~IsAscii(value) THEN [w EXCEPT !.ok = FALSE]
    ELSE LET w1 == write_int(w, Len(value), count)
             w2 == WriteEach(w1, [k \in 1..Len(value) |-> <<value[k]>>], value, count)
         IN  write(w2, <<0>>, count)

write_length_prefixed_string(w, value, count) ==
    IF ~w.ok THEN w
    ELSE IF Len(value) = 0 THEN write_int(w, 0, count)
    ELSE IF ~IsAscii(value) THEN [w EXCEPT !.ok = FALSE]   \* struct.pack('b', ord(i))
    ELSE LET w1 == write_int(w, Len(value) + 1, count)
             w2 == WriteEach(w1, [k \in 1..Len(value) |-> <<value[k]>>], value, count)
         IN  write(w2, <<0>>, count)

IsHexDigit(c) == (c >= 48 /\ c <= 57) \/ (c >= 97 /\ c <= 102) \/ (c >= 65 /\ c <= 70)

HexValue(c) == IF c <= 57 THEN c - 48 ELSE IF c >= 97 THEN c - 87 ELSE c - 55

\* bytearray.fromhex(value) from the k-th character on: white space between
\* the bytes is skipped, every byte is two adjacent hexadecimal digits;
\* [ok, bytes], ok FALSE standing for ValueError (bytes are then the bytes
\* before the first character that is not taken)
FromHex(value, k) ==
    LET NotSpace(i) == value[i] # 32
        at == SelectSeq([i \in 1..(Len(value) + 1 - k) |-> i + k - 1], NotSpace)
        pairs == (Len(at) + 1) \div 2
        Good(j) == /\ 2 * j <= Len(at)
                   /\ at[2 * j] = at[2 * j - 1] + 1
                   /\ IsHexDigit(value[at[2 * j - 1]])
                   /\ IsHexDigit(value[at[2 * j]])
        taken == IF \A j \in 1..pairs : Good(j) THEN pairs
                 ELSE (CHOOSE j \in 1..pairs : ~Good(j) /\ \A i \in 1..(j - 1) : Good(i)) - 1
    IN  [ok |-> taken = pairs,
         bytes |-> [j \in 1..taken |->
                       16 * HexValue(value[at[2 * j - 1]]) + HexValue(value[at[2 * j]])]]

write_hex(w, value, count) ==
    LET h == FromHex(value, 1)
    IN  IF ~w.ok THEN w
        ELSE IF ~h.ok THEN [w EXCEPT !.ok = FALSE]
        ELSE write(w, h.bytes, count)

\* buffers.remove(buffer): the index of the first frame equal to the top one
\* (list.remove compares with ==, a frame deeper in the stack that holds the
\* same chunks and the same length is the one removed)
RemoveIndex(buffers) ==
    CHOOSE k \in 1..Len(buffers) :
        /\ buffers[k] = buffers[Len(buffers)]
        /\ \A j \in 1..(k - 1) : buffers[j] # buffers[Len(buffers)]

\* end_buffer_and_write_size: val is the length returned.  When remove takes a
\* deeper frame out, the top frame stays on the stack: its length and then its
\* own chunks are written into itself, a loop over a list that grows with
\* every step and never ends (ok becomes FALSE: the call does not return).
\* end_buffer_and_write_size as it would be if it wrote the number of bytes
\* the frame holds instead of the length it counted
end_buffer_and_write_all(w) ==
    IF ~w.ok THEN w
    ELSE IF Len(w.buffers) = 0 THEN [w EXCEPT !.ok = FALSE]
    ELSE LET top == Len(w.buffers)
             buffer == w.buffers[top]
             k == RemoveIndex(w.buffers)
             w1 == [w EXCEPT !.buffers = SubSeq(@, 1, k - 1) \o SubSeq(@, k + 1, top)]
             w2 == write_int(w1, Len(buffer.bytes), TRUE)
             w3 == WriteEach(w2, buffer.buffer, buffer.bytes, TRUE)
         IN  IF k # top THEN [w2 EXCEPT !.ok = FALSE]
             ELSE [w3 EXCEPT !.val = Len(buffer.bytes)]

end_buffer_and_write_size(w) ==
    IF ~w.ok THEN w
    ELSE IF Len(w.buffers) = 0 THEN [w EXCEPT !.ok = FALSE]      \* IndexError
    ELSE LET top == Len(w.buffers)
             buffer == w.buffers[top]
             k == RemoveIndex(w.buffers)
             w1 == [w EXCEPT !.buffers = SubSeq(@, 1, k - 1) \o SubSeq(@, k + 1, top)]
             w2 == write_int(w1, buffer.length, TRUE)
             w3 == WriteEach(w2, buffer.buffer, buffer.bytes, TRUE)
         IN  IF k # top THEN [w2 EXCEPT !.ok = FALSE]
             ELSE [w3 EXCEPT !.val = buffer.length]

\* ------------------------------------------------ json2sav: write_property
\* d[k] for each k of keys succeeds (no KeyError)
HasAll(d, keys) == keys \subseteq DOMAIN d

KeyError(w) == [w EXCEPT !.ok = FALSE]

write_none(w) == write_length_prefixed_string(w, S_None, TRUE)

RECURSIVE WriteFloats(_, _)
WriteFloats(w, values) ==
    IF ~w.ok \/ values = <<>> THEN w
    ELSE WriteFloats(write_float(w, Head(values)), Tail(values))

RECURSIVE WriteInts(_, _)
\* for obj in values: write_int(obj)
WriteInts(w, values) ==
    IF ~w.ok \/ values = <<>> THEN w
    ELSE WriteInts(write_int(w, Head(values), TRUE), Tail(values))

RECURSIVE WriteLevelPaths(_, _)
\* for obj in values: the two strings of obj
WriteLevelPaths(w, values) ==
    IF ~w.ok \/ values = <<>> THEN w
    ELSE IF ~HasAll(Head(values), {"level_name", "path_name"}) THEN KeyError(w)
    ELSE WriteLevelPaths(
             write_length_prefixed_string(
                 write_length_prefixed_string(w, Head(values).level_name, TRUE),
                 Head(values).path_name, TRUE),
             Tail(values))

\* the length field a call of end_buffer_and_write_size put into the sink
\* below the frame it closed: w0 is the writer before the call, w1 after it
EmittedField(w0, w1) ==
    IF ~w1.ok THEN <<>>
    ELSE IF Len(w0.buffers) >= 2
    THEN w1.buffers[Len(w1.buffers)].buffer[Len(w0.buffers[Len(w0.buffers) - 1].buffer) + 1]
    ELSE SubSeq(w1.out, Len(w0.out) + 1, Len(w0.out) + 4)

\* the bytes held by the top frame
TopBytes(w) == w.buffers[Len(w.buffers)].bytes

\* if length != property[key]: print(...): the two lengths are printed and
\* the call goes on
\* LengthCheck as it would be if a mismatch ended the call
LengthCheckStrict(w, len, property, key) ==
    IF ~w.ok THEN w
    ELSE IF ~Has(property, key) THEN KeyError(w)
    ELSE IF len # property[key] THEN [w EXCEPT !.ok = FALSE]
    ELSE w

LengthCheck(w, len, property, key) ==
    IF ~w.ok THEN w
    ELSE IF ~Has(property, key) THEN KeyError(w)
    ELSE IF len # property[key] THEN [w EXCEPT !.printed = Append(@, <<len, property[key]>>)]
    ELSE w

\* The frame on top of the stack is closed and its size compared with
\* property[key]; the history gets the counted length of the frame, the
\* length stored in the document and the length field written.
CloseFrame(w, kind, property, key) ==
    LET w1 == end_buffer_and_write_size(w)
        w2 == LengthCheck(w1, w1.val, property, key)
    IN  IF ~w.ok THEN w
        ELSE [w2 EXCEPT !.log = Append(@,
                 [kind |-> kind, type |-> property.type,
                  counted |-> w.buffers[Len(w.buffers)].length,
                  hasStored |-> Has(property, key),
                  stored |-> IF Has(property, key) THEN property[key] ELSE 0,
                  field |-> EmittedField(w, w1),
                  returned |-> w2.ok])]

\* Dirty hack to make in this one case the inner property only take up 4
\* bytes: buffers[len(buffers) - 1]['length'] = oldval + 4
\* ClampInnerLength as it would be without the assignment
ClampInnerLengthKept(w, top, oldval) == w

ClampInnerLength(w, top, oldval) == [w EXCEPT !.buffers[top].length = oldval + 4]

RECURSIVE write_property(_, _), WritePropertyList(_, _), WriteStructElements(_, _),
          WriteMapEntries(_, _), WriteStructBody(_, _), WriteArrayBody(_, _),
          WritePropertyBody(_, _, _)

\* for prop in props: write_property(prop)
WritePropertyList(w, props) ==
    IF ~w.ok \/ props = <<>> THEN w
    ELSE WritePropertyList(write_property(w, Head(props)), Tail(props))

\* for obj in values: the properties of obj, then None
\* WriteStructElements as it would be if the None after the properties of an
\* element were left out
WriteStructElementsBare(w, values) ==
    IF ~w.ok \/ values = <<>> THEN w
    ELSE IF ~Has(Head(values), "properties") THEN KeyError(w)
    ELSE WriteStructElements(WritePropertyList(w, Head(values).properties),
                             Tail(values))

WriteStructElements(w, values) ==
    IF ~w.ok \/ values = <<>> THEN w
    ELSE IF ~Has(Head(values), "properties") THEN KeyError(w)
    ELSE WriteStructElements(write_none(WritePropertyList(w, Head(values).properties)),
                             Tail(values))

\* for key, value in values.items(): the key, the properties, then None
\* WriteMapEntries as it would be if the keys were written with count=False
WriteMapEntriesUncounted(w, items) ==
    IF ~w.ok \/ items = <<>> THEN w
    ELSE WriteMapEntries(
             write_none(WritePropertyList(write_int(w, Head(items).key, FALSE),
                                          Head(items).value)),
             Tail(items))

WriteMapEntries(w, items) ==
    IF ~w.ok \/ items = <<>> THEN w
    ELSE WriteMapEntries(
             write_none(WritePropertyList(write_int(w, Head(items).key, TRUE),
                                          Head(items).value)),
             Tail(items))

\* the body of a StructProperty after the 17 unknown bytes
WriteStructBody(w, property) ==
    LET value == property.value
        type == value.type
    IN
    IF ~w.ok THEN w
    ELSE CASE type = S_Vector \/ type = S_Rotator ->
        IF ~HasAll(value, {"x", "y", "z"}) THEN KeyError(w)
        ELSE WriteFloats(w, <<value.x, value.y, value.z>>)
      [] type = S_Box ->
        IF ~HasAll(value, {"min", "max", "is_valid"}) THEN KeyError(w)
        ELSE write_byte(WriteFloats(w, SubSeq(value.min, 1, 3) \o SubSeq(value.max, 1, 3)),
                        value.is_valid, TRUE)
      [] type = S_LinearColor ->
        IF ~HasAll(value, {"r", "g", "b", "a"}) THEN KeyError(w)
        ELSE WriteFloats(w, <<value.r, value.g, value.b, value.a>>)
      [] type = S_Transform ->
        IF ~Has(value, "properties") THEN KeyError(w)
        ELSE write_none(WritePropertyList(w, value.properties))
      [] type = S_Quat ->
        IF ~HasAll(value, {"a", "b", "c", "d"}) THEN KeyError(w)
        ELSE WriteFloats(w, <<value.a, value.b, value.c, value.d>>)
      [] type = S_RemovedInstanceArray \/ type = S_InventoryStack ->
        IF ~Has(value, "properties") THEN KeyError(w)
        ELSE write_none(WritePropertyList(w, value.properties))
      [] type = S_InventoryItem ->
        IF ~Has(value, "unk1") THEN KeyError(w)
        ELSE IF ~Has(value, "itemName") THEN
            KeyError(write_length_prefixed_string(w, value.unk1, FALSE))
        ELSE IF ~HasAll(value, {"level_name", "path_name", "properties"}) THEN KeyError(w)
        ELSE IF value.properties = <<>> THEN KeyError(w)          \* IndexError
        ELSE LET w1 == write_length_prefixed_string(w, value.unk1, FALSE)
                 w2 == write_length_prefixed_string(w1, value.itemName, TRUE)
                 w3 == write_length_prefixed_string(w2, value.level_name, TRUE)
                 w4 == write_length_prefixed_string(w3, value.path_name, TRUE)
                 top == Len(w4.buffers)
                 oldval == w4.buffers[top].length
                 Inner(w5) ==
                     IF ~w5.ok THEN w5
                     ELSE [ClampInnerLength(w5, top, oldval) EXCEPT !.log = Append(@,
                              [kind |-> "item", type |-> type, oldval |-> oldval,
                               after |-> ClampInnerLength(w5, top, oldval)
                                             .buffers[top].length,
                               property |-> value.properties[1],
                               inner |-> SubSeq(TopBytes(w5), Len(TopBytes(w4)) + 1,
                                                Len(TopBytes(w5)))])]
             IN  Inner(write_property(w4, value.properties[1]))
      [] OTHER -> w

\* the body of an ArrayProperty after its count
WriteArrayBody(w, property) ==
    LET item_type == property.value.type
        values == property.value.values
    IN
    IF ~w.ok THEN w
    ELSE IF item_type = S_IntProperty THEN WriteInts(w, values)
    ELSE IF item_type = S_ObjectProperty THEN WriteLevelPaths(w, values)
    ELSE IF item_type = S_StructProperty THEN
        IF ~HasAll(property, {"struct_name", "struct_type", "structInnerType",
                              "structUnknown"})
        THEN KeyError(w)
        ELSE LET w1 == write_length_prefixed_string(w, property.struct_name, TRUE)
                 w2 == write_length_prefixed_string(w1, property.struct_type, TRUE)
                 w3 == add_buffer(w2)
                 w4 == write_int(w3, 0, FALSE)
                 w5 == write_length_prefixed_string(w4, property.structInnerType, FALSE)
                 w6 == write_hex(w5, property.structUnknown, FALSE)
             IN  CloseFrame(WriteStructElements(w6, values), "struct", property,
                            "_structLength")
    ELSE w

\* the dispatch of write_property on the type tag, inside the length frame;
\* a tag none of the branches names writes nothing
WritePropertyBody(w, type, property) ==
    LET value == property.value
        Zero(w9) == write_byte(w9, 0, FALSE)
    IN
    IF ~w.ok THEN w
    ELSE CASE type = S_IntProperty ->
        IF ~Has(property, "value") THEN KeyError(Zero(w))
        ELSE write_int(Zero(w), value, TRUE)
      [] type = S_BoolProperty ->
        IF ~Has(property, "value") THEN KeyError(w)
        ELSE Zero(write_byte(w, value, FALSE))
      [] type = S_FloatProperty ->
        IF ~Has(property, "value") THEN KeyError(Zero(w))
        ELSE write_float(Zero(w), value)
      [] type = S_StrProperty \/ type = S_NameProperty ->
        IF ~Has(property, "value") THEN KeyError(Zero(w))
        ELSE write_length_prefixed_string(Zero(w), value, TRUE)
      [] type = S_TextProperty ->
        IF ~HasAll(property, {"textUnknown", "value"}) THEN KeyError(Zero(w))
        ELSE write_length_prefixed_string(
                 write_hex(Zero(w), property.textUnknown, TRUE), value, TRUE)
      [] type = S_ByteProperty ->
        IF ~Has(property, "value") THEN KeyError(w)
        ELSE IF ~HasAll(value, {"unk1", "unk2"}) THEN KeyError(w)
        ELSE LET w1 == write_length_prefixed_string(w, value.unk1, FALSE)
             IN  IF value.unk1 = S_EGamePhase
                 THEN IF value.unk2.t # "str" THEN KeyError(Zero(w1))   \* TypeError
                      ELSE write_length_prefixed_string(Zero(w1), value.unk2.v, TRUE)
                 ELSE IF value.unk2.t # "int" THEN KeyError(Zero(w1))   \* struct.error
                      ELSE write_byte(Zero(w1), value.unk2.v, TRUE)
      [] type = S_EnumProperty ->
        IF ~Has(property, "value") THEN KeyError(w)
        ELSE IF ~HasAll(value, {"enum", "value"}) THEN KeyError(w)
        ELSE write_length_prefixed_string(
                 Zero(write_length_prefixed_string(w, value.enum, FALSE)),
                 value.value, TRUE)
      [] type = S_ObjectProperty ->
        IF ~Has(property, "value") THEN KeyError(Zero(w))
        ELSE WriteLevelPaths(Zero(w), <<value>>)
      [] type = S_StructProperty ->
        IF ~HasAll(property, {"value", "structUnknown"}) THEN KeyError(w)
        ELSE IF ~Has(value, "type") THEN KeyError(w)
        ELSE WriteStructBody(
                 write_hex(write_length_prefixed_string(w, value.type, FALSE),
                           property.structUnknown, FALSE),
                 property)
      [] type = S_ArrayProperty ->
        IF ~Has(property, "value") THEN KeyError(w)
        ELSE IF ~HasAll(value, {"type", "values"}) THEN KeyError(w)
        ELSE WriteArrayBody(
                 write_int(Zero(write_length_prefixed_string(w, value.type, FALSE)),
                           Len(value.values), TRUE),
                 property)
      [] type = S_MapProperty ->
        IF ~Has(property, "value") THEN KeyError(w)
        ELSE IF ~HasAll(value, {"name", "type", "values"}) THEN KeyError(w)
        ELSE LET w1 == write_length_prefixed_string(w, value.name, FALSE)
                 w2 == write_length_prefixed_string(w1, value.type, FALSE)
                 w3 == write_int(Zero(w2), 0, TRUE)    \* counts towards the length
                 w4 == write_int(w3, Len(value.values), TRUE)
             IN  WriteMapEntries(w4, value.values)
      [] OTHER -> w

write_property(w, property) ==
    IF ~w.ok THEN w
    ELSE IF ~HasAll(property, {"name", "type"}) THEN KeyError(w)
    ELSE LET w1 == write_length_prefixed_string(w, property.name, TRUE)
             w2 == write_length_prefixed_string(w1, property.type, TRUE)
             w3 == add_buffer(w2)
             w4 == write_int(w3, 0, FALSE)
         IN  CloseFrame(WritePropertyBody(w4, property.type, property), "property",
                        property, "_length")

\* ------------------------------------------------ json2sav: objects, entities
write_actor(w, obj) ==
    IF ~w.ok THEN w
    ELSE IF ~HasAll(obj, {"class_name", "level_name", "path_name", "need_transform",
                          "transform", "was_placed_in_level"})
    THEN KeyError(w)
    ELSE LET w1 == write_length_prefixed_string(w, obj.class_name, TRUE)
             w2 == write_length_prefixed_string(w1, obj.level_name, TRUE)
             w3 == write_length_prefixed_string(w2, obj.path_name, TRUE)
             w4 == write_int(w3, obj.need_transform, TRUE)
             w5 == WriteFloats(w4, SubSeq(obj.transform.rotation, 1, 4)
                                   \o SubSeq(obj.transform.translation, 1, 3)
                                   \o SubSeq(obj.transform.scale3d, 1, 3))
         IN  write_int(w5, obj.was_placed_in_level, TRUE)

write_object(w, obj) ==
    IF ~w.ok THEN w
    ELSE IF ~HasAll(obj, {"class_name", "level_name", "path_name", "outer_path_name"})
    THEN KeyError(w)
    ELSE LET w1 == write_length_prefixed_string(w, obj.class_name, TRUE)
             w2 == write_length_prefixed_string(w1, obj.level_name, TRUE)
             w3 == write_length_prefixed_string(w2, obj.path_name, TRUE)
         IN  write_length_prefixed_string(w3, obj.outer_path_name, TRUE)

write_entity(w, with_names, obj) ==
    LET w1 == add_buffer(w)
        w2 == write_length_prefixed_string(w1, obj.level_name, TRUE)
        w3 == write_length_prefixed_string(w2, obj.path_name, TRUE)
        w4 == write_int(w3, Len(obj.children), TRUE)
        w5 == WriteLevelPaths(w4, obj.children)
        w6 == IF with_names THEN w5 ELSE w1
        Missing(w7) ==
            IF ~Has(obj, "missing") THEN KeyError(w7)
            ELSE end_buffer_and_write_size(write_hex(w7, obj.missing, TRUE))
    IN  IF ~w.ok THEN w
        ELSE IF with_names /\ ~HasAll(obj, {"level_name", "path_name", "children"})
        THEN KeyError(w1)
        ELSE IF ~Has(obj, "properties") THEN KeyError(w6)
        ELSE Missing(write_none(WritePropertyList(w6, obj.properties)))

\* --------------------------------------------------- json2sav: the script
EPc(w, next) == IF w.ok THEN next ELSE "failed"

\* lines 24-32: the document sav2json wrote is loaded.  The JSON text keeps
\* ints, strings, lists and the keys of the dicts as they are (a NaN has lost
\* its payload, see UnpackFloat; an int key of a MapProperty, written as a
\* string, is turned back by int(key)).
LoadJson ==
    /\ mode = "decode"
    /\ dpc = "done"
    /\ epc = "idle"
    /\ save_json' = saveJson
    /\ epc' = "header"
    /\ UNCHANGED <<input, mode, file, rd, saveJson, entryCount, length, di, dpc, wr, ei>>
    /\ UNCHANGED <<py, save_dict, ppc>>

\* lines 103-113: the header and the object count
WriteHeader ==
    /\ epc = "header"
    /\ LET d == save_json
           ok == HasAll(d, {"save_header_type", "save_version", "build_version",
                            "map_name", "map_options", "session_name",
                            "play_duration_seconds", "save_date_time",
                            "session_visibility", "objects"})
           w1 == write_int(wr, d.save_header_type, TRUE)
           w2 == write_int(w1, d.save_version, TRUE)
           w3 == write_int(w2, d.build_version, TRUE)
           w4 == write_length_prefixed_string(w3, d.map_name, TRUE)
           w5 == write_length_prefixed_string(w4, d.map_options, TRUE)
           w6 == write_length_prefixed_string(w5, d.session_name, TRUE)
           w7 == write_int(w6, d.play_duration_seconds, TRUE)
           w8 == write_long(w7, d.save_date_time)
           w9 == write_byte(w8, d.session_visibility, TRUE)
           w10 == IF ok THEN write_int(w9, Len(d.objects), TRUE) ELSE KeyError(wr)
       IN  /\ wr' = w10
           /\ epc' = EPc(w10, "objects")
    /\ ei' = 0
    /\ UNCHANGED <<input, mode, file, rd, saveJson, entryCount, length, di, dpc, save_json>>
    /\ UNCHANGED <<py, save_dict, ppc>>

\* lines 141-148: one iteration of the loop over the objects
WriteObjectEntry ==
    /\ epc = "objects"
    /\ ei < Len(save_json.objects)
    /\ LET obj == save_json.objects[ei + 1]
           w1 == write_int(wr, obj.type, TRUE)
           w2 == IF ~Has(obj, "type") THEN KeyError(wr)
                 ELSE IF obj.type = 1 THEN write_actor(w1, obj)
                 ELSE IF obj.type = 0 THEN write_object(w1, obj)
                 ELSE KeyError(w1)                       \* assert_fail
       IN  /\ wr' = w2
           /\ epc' = EPc(w2, "objects")
    /\ ei' = ei + 1
    /\ UNCHANGED <<input, mode, file, rd, saveJson, entryCount, length, di, dpc, save_json>>
    /\ UNCHANGED <<py, save_dict, ppc>>

\* line 150: the object count once more
WriteCount ==
    /\ epc = "objects"
    /\ ei >= Len(save_json.objects)
    /\ wr' = write_int(wr, Len(save_json.objects), TRUE)
    /\ epc' = "entities"
    /\ ei' = 0
    /\ UNCHANGED <<input, mode, file, rd, saveJson, entryCount, length, di, dpc, save_json>>
    /\ UNCHANGED <<py, save_dict, ppc>>

\* lines 309-313: one iteration of the loop over the entities
WriteEntityEntry ==
    /\ epc = "entities"
    /\ ei < Len(save_json.objects)
    /\ LET obj == save_json.objects[ei + 1]
       IN  /\ wr' = IF ~Has(obj, "entity") THEN KeyError(wr)
                    ELSE IF obj.type = 1 \/ obj.type = 0
                    THEN write_entity(wr, obj.type = 1, obj.entity)
                    ELSE wr
           /\ epc' = EPc(wr', "entities")
    /\ ei' = ei + 1
    /\ UNCHANGED <<input, mode, file, rd, saveJson, entryCount, length, di, dpc, save_json>>
    /\ UNCHANGED <<py, save_dict, ppc>>

\* line 315: the bytes after the entities
WriteMissing ==
    /\ epc = "entities"
    /\ ei >= Len(save_json.objects)
    /\ LET w1 == IF ~Has(save_json, "missing") THEN KeyError(wr)
                 ELSE write_hex(wr, save_json.missing, TRUE)
       IN  /\ wr' = w1
           /\ epc' = EPc(w1, "done")
    /\ UNCHANGED <<input, mode, file, rd, saveJson, entryCount, length, di, dpc, save_json, ei>>
    /\ UNCHANGED <<py, save_dict, ppc>>

\* ---------------------------------------------------- the input documents
\* The documents handed to json2sav directly, with the keys it reads.
D_Prop(name, type, len, value) ==
    [name |-> name, type |-> type, _length |-> len, value |-> value]

D_Int(name, len, v) == D_Prop(name, S_IntProperty, len, v)

D_IntX == D_Int(<<88>>, 4, 42)

D_IntY == D_Int(<<89>>, 4, -2)

D_Hex17 == HexText(B_Hex17, 1, 17)

D_Struct(len, value) == Put(D_Prop(<<118>>, S_StructProperty, len, value),
                            "structUnknown", D_Hex17)

\* an InventoryItem struct; nameKey is the key that holds the item name
D_Item(len, nameKey, props) ==
    D_Struct(len, Put([type |-> S_InventoryItem, unk1 |-> <<>>, level_name |-> <<108>>,
                       path_name |-> <<>>, properties |-> props],
                      nameKey, <<105>>))

\* an array of structs
D_StructArray(len, structLen, values) ==
    [name |-> <<97>>, type |-> S_ArrayProperty, _length |-> len,
     value |-> [type |-> S_StructProperty, values |-> values],
     struct_name |-> <<110>>, struct_type |-> S_StructProperty,
     structInnerType |-> <<86>>, structUnknown |-> D_Hex17, _structLength |-> structLen]

D_Map(len, items) ==
    D_Prop(<<109>>, S_MapProperty, len,
           [name |-> S_IntProperty, type |-> S_StructProperty, values |-> items])

\* The property lists an entity of an input document may hold.
PropertyDicts == <<
    <<>>,
    <<D_IntX>>,
    <<D_IntX, D_IntY>>,
    <<D_Int(<<88>>, 7, 42)>>,                                    \* stale length
    <<[name |-> <<88>>, type |-> S_IntProperty, value |-> 42]>>,  \* no length
    <<D_Prop(<<98>>, S_BoolProperty, 0, 1)>>,
    <<D_Prop(<<102>>, S_FloatProperty, 4, B_One)>>,
    <<D_Prop(<<115>>, S_StrProperty, 7, <<97, 98>>)>>,
    <<D_Prop(<<115>>, S_StrProperty, 5, <<>>)>>,                 \* stale length
    <<D_Prop(<<110>>, S_NameProperty, 4, <<>>)>>,
    <<Put(D_Prop(<<116>>, S_TextProperty, 19, <<116>>), "textUnknown",
          HexText(B_Hex13, 1, 13))>>,
    <<D_Prop(<<121>>, S_ByteProperty, 1, [unk1 |-> S_None, unk2 |-> PyInt(3)])>>,
    <<D_Prop(<<121>>, S_ByteProperty, 6, [unk1 |-> S_EGamePhase, unk2 |-> PyStr(<<112>>)])>>,
    <<D_Prop(<<121>>, S_ByteProperty, 6, [unk1 |-> <<81>>, unk2 |-> PyStr(<<114>>)])>>,
    <<D_Prop(<<121>>, S_ByteProperty, 1, [unk1 |-> <<81>>, unk2 |-> PyInt(-1)])>>,
    <<D_Prop(<<101>>, S_EnumProperty, 6, [enum |-> <<69>>, value |-> <<118>>])>>,
    <<D_Prop(<<111>>, S_ObjectProperty, 10, [level_name |-> <<108>>, path_name |-> <<>>])>>,
    <<D_Struct(12, [type |-> S_Vector, x |-> B_One, y |-> B_Two, z |-> B_One])>>,
    <<D_Struct(12, [type |-> S_Rotator, x |-> B_One, y |-> B_Two, z |-> B_One])>>,
    <<D_Struct(25, [type |-> S_Box, min |-> <<B_One, B_One, B_One>>,
                    max |-> <<B_Two, B_Two, B_Two>>, is_valid |-> 1])>>,
    <<D_Struct(16, [type |-> S_LinearColor, r |-> B_One, g |-> B_Two, b |-> B_One,
                    a |-> B_Two])>>,
    <<D_Struct(16, [type |-> S_Quat, a |-> B_One, b |-> B_Two, c |-> B_One, d |-> B_Two])>>,
    <<D_Struct(Len(B_IntX) + 9, [type |-> S_Transform, properties |-> <<D_IntX>>])>>,
    <<D_Struct(9, [type |-> S_RemovedInstanceArray, properties |-> <<>>])>>,
    <<D_Struct(Len(B_Item(B_IntX)) + 9,
               [type |-> S_InventoryStack,
                properties |-> <<D_Item(20, "itemName", <<D_IntX>>)>>])>>,
    <<D_Item(20, "itemName", <<D_IntX>>)>>,
    <<D_Item(20, "itemName", <<D_Prop(<<115>>, S_StrProperty, 7, <<97, 98>>)>>), D_IntY>>,
    <<D_Item(20, "item_name", <<D_IntX>>)>>,
    <<D_Item(20, "itemName", <<>>)>>,
    <<D_Struct(0, [type |-> <<90>>])>>,                          \* unknown struct type
    <<D_Prop(<<97>>, S_ArrayProperty, 12, [type |-> S_IntProperty, values |-> <<7, -1>>])>>,
    <<D_Prop(<<97>>, S_ArrayProperty, 16,
             [type |-> S_ObjectProperty,
              values |-> <<[level_name |-> <<108>>, path_name |-> <<112>>]>>])>>,
    <<D_StructArray(4 + 6 + 19 + 4 + 27 + 2 * Len(B_IntX) + 18, 2 * Len(B_IntX) + 18,
                    <<[properties |-> <<D_IntX>>], [properties |-> <<D_IntX>>]>>)>>,
    <<D_StructArray(4 + 6 + 19 + 4 + 27 + 9, 1, <<[properties |-> <<>>]>>)>>, \* stale
    <<D_Prop(<<97>>, S_ArrayProperty, 4, [type |-> <<90>>, values |-> <<>>])>>,
    <<D_Map(4 + 4 + 4 + Len(B_IntX) + 9, <<[key |-> 5, value |-> <<D_IntX>>]>>)>>,
    <<D_Prop(<<117>>, <<90>>, 0, 0)>>,                            \* unknown type tag
    <<D_Prop(<<117>>, <<90>>, 0, 0), D_IntX>>,
    <<D_StructArray(4 + 6 + 19 + 4 + 27 + Len(B_IntX) + Len(B_Item(B_IntX)) + 18,
                    Len(B_IntX) + Len(B_Item(B_IntX)) + 18,
                    <<[properties |-> <<D_IntX>>],
                      [properties |-> <<D_Item(20, "itemName", <<D_IntX>>)>>]>>)>>,
    <<D_Map(4 + 4 + (4 + Len(B_IntX) + 9) + (4 + 9),
            <<[key |-> 5, value |-> <<D_IntX>>], [key |-> -3, value |-> <<>>]>>)>>
>>

D_Header ==
    [save_header_type |-> 5, save_version |-> 17, build_version |-> 66297,
     map_name |-> <<109>>, map_options |-> <<>>, session_name |-> <<115>>,
     play_duration_seconds |-> 60, save_date_time |-> <<0, 1, 2, 3, 4, 5, 6, 8>>,
     session_visibility |-> 1]

D_Object(kind) ==
    IF kind = 1
    THEN [type |-> 1, class_name |-> <<67>>, level_name |-> <<76>>, path_name |-> <<80>>,
          need_transform |-> 1,
          transform |-> [rotation |-> Repeat(B_One, 4), translation |-> Repeat(B_One, 3),
                         scale3d |-> Repeat(B_One, 3)],
          was_placed_in_level |-> 1]
    ELSE [type |-> 0, class_name |-> <<67>>, level_name |-> <<76>>, path_name |-> <<80>>,
          outer_path_name |-> <<79>>]

\* the entity of an object; trail < 0 stands for an entity without the key
\* 'missing'
D_Entity(kind, props, trail) ==
    LET e0 == IF kind = 1
              THEN [level_name |-> <<76>>, path_name |-> <<80>>,
                    children |-> <<[level_name |-> <<>>, path_name |-> <<99>>]>>,
                    properties |-> props]
              ELSE [properties |-> props]
    IN  IF trail < 0 THEN e0
        ELSE Put(e0, "missing", HexText(Repeat(170, trail), 1, trail))

\* A document of n objects: the entities before the last are plain ones.
D_Document(n, kind, props, trail, tail) ==
    Put(Put(D_Header, "objects",
            [k \in 1..n |->
                IF k = n THEN Put(D_Object(kind), "entity", D_Entity(kind, props, trail))
                ELSE Put(D_Object(1 - kind), "entity",
                         D_Entity(1 - kind, <<D_IntX>>, 0))]),
        "missing", HexText(Repeat(187, tail), 1, tail))

\* ------------------------------------------------------- the specification
Idle == [none |-> TRUE]

InitDecode ==
    /\ mode = "decode"
    /\ \E n \in 0..MaxObjects, kind \in {0, 1}, pl \in 1..Len(PropertyLists),
          trail \in 0..MaxTrail, off \in {-1, 0}, tail \in {0, 1}, cut \in 0..MaxCut :
          /\ n = 0 => (kind = 0 /\ pl = 1 /\ trail = 0 /\ off = 0)
          /\ off = -1 => trail = 0
          /\ cut > 0 => tail = 0
          /\ input = [n |-> n, kind |-> kind, pl |-> pl, trail |-> trail, off |-> off,
                      tail |-> tail, cut |-> cut]
          /\ file = B_File(n, kind, PropertyLists[pl].bytes, trail, off, tail, cut)
    /\ rd = NewReader(file)
    /\ dpc = "header"
    /\ save_json = Idle
    /\ epc = "idle"

InitEncode ==
    /\ mode = "encode"
    /\ file = <<>>
    /\ rd = NewReader(<<>>)
    /\ dpc = "off"
    /\ \E n \in 0..MaxObjects, kind \in {0, 1}, pl \in 1..Len(PropertyDicts),
          trail \in -1..MaxTrail, tail \in {0, 1} :
          /\ n = 0 => (kind = 0 /\ pl = 1 /\ trail = 0)
          /\ input = [n |-> n, kind |-> kind, pl |-> pl, trail |-> trail, off |-> 0,
                      tail |-> tail, cut |-> 0]
          /\ save_json = D_Document(n, kind, PropertyDicts[pl], trail, tail)
    /\ epc = "header"

Init ==
    /\ InitDecode \/ InitEncode
    /\ saveJson = Idle
    /\ entryCount = 0
    /\ length = 0
    /\ di = 0
    /\ wr = NewWriter
    /\ ei = 0
    /\ py = NewReader(<<>>)
    /\ save_dict = Idle
    /\ ppc = "off"

Next ==
    \/ ReadHeader
    \/ ReadObjectEntry
    \/ ReadElementCount
    \/ ReadEntityEntry
    \/ ReadMissing
    \/ LoadJson
    \/ WriteHeader
    \/ WriteObjectEntry
    \/ WriteCount
    \/ WriteEntityEntry
    \/ WriteMissing

Spec == Init /\ [][Next]_vars

\* ------------------------------------- json2sav: sequences of primitives
\* A call of one of the writer's primitives: add_buffer(), write(bytes, count),
\* write_length_prefixed_string(bytes, count) or end_buffer_and_write_size().
Call(op, bytes, count) == [op |-> op, bytes |-> bytes, count |-> count]

CallValues == {<<>>, <<65>>, <<65, 66>>, <<200>>}

Calls ==
    {Call("add", <<>>, TRUE), Call("end", <<>>, TRUE)}
    \cup {Call("write", <<7>>, c) : c \in BOOLEAN}
    \cup {Call("string", v, c) : v \in CallValues, c \in BOOLEAN}

RECURSIVE CallSequences(_)
\* the sequences of at most n calls
CallSequences(n) ==
    IF n = 0 THEN {<<>>}
    ELSE CallSequences(n - 1)
         \cup {Append(cs, c) : cs \in {x \in CallSequences(n - 1) : Len(x) = n - 1},
                               c \in Calls}

\* the writer starts with no frame and an empty output; input.calls is the
\* sequence of the calls to come
InitCalls ==
    /\ mode = "calls"
    /\ \E cs \in CallSequences(MaxCalls) : input = [calls |-> cs]
    /\ file = <<>>
    /\ rd = NewReader(<<>>)
    /\ dpc = "off"
    /\ save_json = Idle
    /\ epc = "calls"
    /\ saveJson = Idle
    /\ entryCount = 0
    /\ length = 0
    /\ di = 0
    /\ wr = NewWriter
    /\ ei = 0
    /\ py = NewReader(<<>>)
    /\ save_dict = Idle
    /\ ppc = "off"

\* the call that comes next
NextCall == input.calls[ei + 1]

CallPending(op) ==
    /\ mode = "calls" /\ epc = "calls"
    /\ ei < Len(input.calls)
    /\ NextCall.op = op

CallAddBuffer ==
    /\ CallPending("add")
    /\ wr' = add_buffer(wr)
    /\ epc' = EPc(wr', "calls")
    /\ ei' = ei + 1
    /\ UNCHANGED <<input, mode, file, rd, saveJson, entryCount, length, di, dpc, save_json>>
    /\ UNCHANGED <<py, save_dict, ppc>>

CallWrite ==
    /\ CallPending("write")
    /\ wr' = write(wr, NextCall.bytes, NextCall.count)
    /\ epc' = EPc(wr', "calls")
    /\ ei' = ei + 1
    /\ UNCHANGED <<input, mode, file, rd, saveJson, entryCount, length, di, dpc, save_json>>
    /\ UNCHANGED <<py, save_dict, ppc>>

CallString ==
    /\ CallPending("string")
    /\ wr' = write_length_prefixed_string(wr, NextCall.bytes, NextCall.count)
    /\ epc' = EPc(wr', "calls")
    /\ ei' = ei + 1
    /\ UNCHANGED <<input, mode, file, rd, saveJson, entryCount, length, di, dpc, save_json>>
    /\ UNCHANGED <<py, save_dict, ppc>>

CallEndBuffer ==
    /\ CallPending("end")
    /\ wr' = end_buffer_and_write_size(wr)
    /\ epc' = EPc(wr', "calls")
    /\ ei' = ei + 1
    /\ UNCHANGED <<input, mode, file, rd, saveJson, entryCount, length, di, dpc, save_json>>
    /\ UNCHANGED <<py, save_dict, ppc>>

NextCalls ==
    \/ CallAddBuffer
    \/ CallWrite
    \/ CallString
    \/ CallEndBuffer

CallSpec == InitCalls /\ [][NextCalls]_vars

\* ------------------------------------------- one string, read and written
\* the bytes a string may consist of on disk: NUL, "A", and one byte that is
\* not ASCII
StringBytes == {0, 65, 200}

RECURSIVE ByteRuns(_)
\* the runs of at most n bytes of StringBytes
ByteRuns(n) ==
    IF n = 0 THEN {<<>>}
    ELSE ByteRuns(n - 1)
         \cup {Append(b, c) : b \in {x \in ByteRuns(n - 1) : Len(x) = n - 1},
                              c \in StringBytes}

\* f holds an i32 and some bytes after it, fewer or more than it declares
InitString ==
    /\ mode = "string"
    /\ \E declared \in 0..MaxString, body \in ByteRuns(MaxString) :
          /\ input = [declared |-> declared, body |-> body]
          /\ file = PackInt(declared) \o body
    /\ rd = NewReader(file)
    /\ dpc = "string"
    /\ save_json = Idle
    /\ epc = "idle"
    /\ saveJson = Idle
    /\ entryCount = 0
    /\ length = 0
    /\ di = 0
    /\ wr = NewWriter
    /\ ei = 0
    /\ py = NewReader(<<>>)
    /\ save_dict = Idle
    /\ ppc = "off"

\* sav2json reads the string at the start of f
ReadString ==
    /\ mode = "string"
    /\ dpc = "string"
    /\ rd' = read_length_prefixed_string(rd)
    /\ dpc' = IF rd'.ok THEN "read" ELSE "failed"
    /\ epc' = IF rd'.ok THEN "string" ELSE epc
    /\ UNCHANGED <<input, mode, file, saveJson, entryCount, length, di, save_json, wr, ei>>
    /\ UNCHANGED <<py, save_dict, ppc>>

\* json2sav writes the value sav2json returned
WriteString ==
    /\ mode = "string"
    /\ epc = "string"
    /\ wr' = write_length_prefixed_string(wr, rd.val, TRUE)
    /\ epc' = EPc(wr', "written")
    /\ UNCHANGED <<input, mode, file, rd, saveJson, entryCount, length, di, dpc, save_json, ei>>
    /\ UNCHANGED <<py, save_dict, ppc>>

NextString == ReadString \/ WriteString

StringSpec == InitString /\ [][NextString]_vars

\* ------------------------------------------------ topy: the library decoder
\* topy.py holds the statements of sav2json.py inside one function to_py: its
\* primitives, read_actor, read_object, read_property and read_entity are the
\* same statements (read_long unpacks 'q', eight bytes on every platform), the
\* keys of the header are spelled with underscores, and the document is
\* returned instead of dumped.

\* lines 9-17: f is opened.  `bytesRead = 0` binds a local of to_py; the
\* global bytesRead that the nested functions declare is a name of the module,
\* which has none
NewPyReader(f) == [NewReader(f) EXCEPT !.bound = FALSE]

\* The locals of to_py travel in val between the parts of the function:
\* save_dict, entry_count and, once read, element_count.

\* lines 92-122: the header is read and save_dict created
PyHeader(r) ==
    LET r1 == read_int(r)                         \* save_header_type
        r2 == read_int(r1)                        \* save_version
        r3 == read_int(r2)                        \* build_version
        r4 == read_length_prefixed_string(r3)     \* map_name
        r5 == read_length_prefixed_string(r4)     \* map_options
        r6 == read_length_prefixed_string(r5)     \* session_name
        r7 == read_int(r6)                        \* play_duration_seconds
        r8 == read_long(r7, 8)                    \* save_date_time
        r9 == read_byte(r8)                       \* session_visibility
        r10 == read_int(r9)                       \* entry_count
    IN  IF ~r10.ok THEN r10
        ELSE [r10 EXCEPT !.val =
                 [entry_count |-> r10.val,
                  save_dict |-> [save_header_type |-> r1.val, save_version |-> r2.val,
                                 build_version |-> r3.val, map_name |-> r4.val,
                                 map_options |-> r5.val, session_name |-> r6.val,
                                 play_duration_seconds |-> r7.val,
                                 save_date_time |-> r8.val,
                                 session_visibility |-> r9.val, objects |-> <<>>]]]

\* lines 172-179: the loop over the object table from its i-th round on
RECURSIVE PyObjects(_, _)
PyObjects(r, i) ==
    LET r1 == read_int(r)                         \* type
        Rest(r2) ==
            IF ~r2.ok THEN r2
            ELSE PyObjects([r2 EXCEPT !.val = [r.val EXCEPT !.save_dict.objects =
                                                             Append(@, r2.val)]],
                           i + 1)
    IN  IF ~r.ok THEN r
        ELSE IF i >= r.val.entry_count THEN r
        ELSE Rest(IF ~r1.ok THEN r1
                  ELSE IF r1.val = 1 THEN read_actor(r1)
                  ELSE IF r1.val = 0 THEN read_object(r1)
                  ELSE assert_fail(r1))

\* lines 181-187: the second count must equal the first
PyElementCount(r) ==
    LET r1 == read_int(r)                         \* element_count
    IN  IF ~r.ok THEN r
        ELSE IF ~r1.ok THEN r1
        ELSE IF r1.val # r.val.entry_count THEN assert_fail(r1)
        ELSE [r1 EXCEPT !.val = Put(r.val, "element_count", r1.val)]

\* lines 457-462: the loop over the entities from its i-th round on
RECURSIVE PyEntities(_, _)
PyEntities(r, i) ==
    LET r1 == read_int(r)                         \* length
        Rest(r2) ==
            IF ~r2.ok THEN r2
            ELSE PyEntities([r2 EXCEPT !.val = [r.val EXCEPT !.save_dict.objects[i + 1] =
                                                              Put(@, "entity", r2.val)]],
                            i + 1)
    IN  IF ~r.ok THEN r
        ELSE IF i >= r.val.element_count THEN r
        ELSE Rest(read_entity(r1, r.val.save_dict.objects[i + 1].type = 1, r1.val))

\* lines 464-467: the rest of the file is kept; val is the save_dict returned
PyMissing(r) ==
    LET r1 == read_hex(r, Len(r.f) - r.pos)
    IN  IF ~r.ok THEN r
        ELSE IF ~r1.ok THEN r1
        ELSE [r1 EXCEPT !.val = Put(r.val.save_dict, "missing", r1.val)]

\* to_py(file_path) on a file holding f
to_py(f) == PyMissing(PyEntities(PyElementCount(PyObjects(PyHeader(NewPyReader(f)), 0)), 0))

\* a client calls to_py on the file sav2json was run on
ToPy ==
    /\ mode = "library"
    /\ dpc \in {"done", "failed"}
    /\ ppc = "call"
    /\ py' = to_py(file)
    /\ save_dict' = IF py'.ok THEN py'.val ELSE save_dict
    /\ ppc' = IF py'.ok THEN "returned" ELSE "raised"
    /\ UNCHANGED <<input, mode, file, rd, saveJson, entryCount, length, di, dpc,
                   save_json, wr, ei, epc>>

\* the same files as for sav2json alone; topy has just been imported
InitLibrary ==
    /\ mode = "library"
    /\ \E n \in 0..MaxObjects, kind \in {0, 1}, pl \in 1..Len(PropertyLists),
          trail \in 0..MaxTrail, off \in {-1, 0}, tail \in {0, 1}, cut \in 0..MaxCut :
          /\ n = 0 => (kind = 0 /\ pl = 1 /\ trail = 0 /\ off = 0)
          /\ off = -1 => trail = 0
          /\ cut > 0 => tail = 0
          /\ input = [n |-> n, kind |-> kind, pl |-> pl, trail |-> trail, off |-> off,
                      tail |-> tail, cut |-> cut]
          /\ file = B_File(n, kind, PropertyLists[pl].bytes, trail, off, tail, cut)
    /\ rd = NewReader(file)
    /\ dpc = "header"
    /\ save_json = Idle
    /\ epc = "idle"
    /\ saveJson = Idle
    /\ entryCount = 0
    /\ length = 0
    /\ di = 0
    /\ wr = NewWriter
    /\ ei = 0
    /\ py = NewReader(<<>>)
    /\ save_dict = Idle
    /\ ppc = "call"

NextLibrary ==
    \/ ReadHeader
    \/ ReadObjectEntry
    \/ ReadElementCount
    \/ ReadEntityEntry
    \/ ReadMissing
    \/ ToPy

LibrarySpec == InitLibrary /\ [][NextLibrary]_vars

\* ----------------------------------------------------------- properties
\* the input file follows the format: true lengths, nothing cut off
ValidInput == mode = "decode" /\ input.off = 0 /\ input.cut = 0
              /\ PropertyLists[input.pl].valid

\* the number of bytes a hex text stands for
HexLen(text) == Len(FromHex(text, 1).bytes)

\* the object whose entity was handled last by sav2json
LastDecoded == saveJson.objects[di]

\* C1: for every valid file, sav2json and then json2sav give the file back,
\* byte for byte: neither call fails and the output equals the input.
C1_RoundTrip ==
    ValidInput => /\ dpc # "failed"
                  /\ epc # "failed"
                  /\ epc = "done" => wr.out = file

\* C2: read_entity leaves the counter at the declared entity length whenever
\* it returns an entity; the residual is then not negative, and it is read as
\* the entity's trailing bytes exactly when it is positive.
C2_EntityCounter ==
    (mode = "decode" /\ dpc = "entities" /\ di >= 1)
        => /\ rd.bytesRead = length
           /\ rd.missing >= 0
           /\ Has(LastDecoded.entity, "missing") <=> rd.missing > 0

\* an entity with a positive residual has been read
C2_Witness ==
    mode = "decode" /\ dpc = "entities" /\ di >= 1 /\ rd.missing > 0
    /\ rd.bytesRead = length /\ rd.bytesRead < Len(file)

\* C3: an entity that consumes exactly its declared length is recorded with an
\* empty trailing_bytes run, and write_entity gives back its block.
C3_ZeroResidual ==
    (mode = "decode" /\ dpc = "entities" /\ di >= 1 /\ rd.missing = 0 /\ ValidInput)
        => LET e == LastDecoded.entity
               w == write_entity(NewWriter, LastDecoded.type = 1, e)
           IN  /\ Has(e, "missing") => HexLen(e.missing) = 0
               /\ w.ok
               /\ w.out = SubSeq(file, rd.pos - length - 3, rd.pos)

\* C4: in a decoded document the payload bytes consumed for a property equal
\* the declared length read from its header.
C4_DeclaredLength ==
    (mode = "decode" /\ dpc = "done")
        => \A k \in 1..Len(rd.plog) :
               rd.plog[k].consumed - rd.plog[k].uncounted = rd.plog[k].declared

\* the histories of the frames json2sav closed, and of the inner properties
\* of the InventoryItem structs it wrote
Closed(e) == e.kind \in {"property", "struct"}

Mismatch(e) == Closed(e) /\ e.hasStored /\ e.stored # e.counted

\* the properties of the entity json2sav wrote last
LastWritten == save_json.objects[ei].entity.properties

EntityWritten == mode = "encode" /\ epc \in {"entities", "done"} /\ ei >= 1

\* the property with another stored length
Restored(p) == [p EXCEPT !._length = @ + 1]

\* C5: the length field written for a property is the length counted in the
\* property's own frame (4 for an IntProperty, whose leading byte is not
\* counted), and the bytes written do not depend on the stored _length.
C5_EmittedLength ==
    /\ \A k \in 1..Len(wr.log) :
           (wr.log[k].kind = "property" /\ wr.log[k].field # <<>>)
               => /\ wr.log[k].field = PackInt(wr.log[k].counted)
                  /\ wr.log[k].type = S_IntProperty => wr.log[k].field = PackInt(4)
    /\ EntityWritten
           => \A k \in 1..Len(LastWritten) :
                  Has(LastWritten[k], "_length")
                      => write_property(NewWriter, Restored(LastWritten[k])).out
                             = write_property(NewWriter, LastWritten[k]).out

\* a file has been written whose IntProperty stores the length 7
C5_Witness ==
    /\ mode = "encode" /\ epc = "done"
    /\ \E k \in 1..Len(wr.log) :
           /\ wr.log[k].kind = "property" /\ wr.log[k].type = S_IntProperty
           /\ wr.log[k].stored = 7 /\ wr.log[k].field = PackInt(4)

\* C6 as claimed: once a recomputed length differs from the stored one, the
\* encode call has failed.
C6_MismatchFails ==
    (mode = "encode" /\ \E k \in 1..Len(wr.log) : Mismatch(wr.log[k])) => ~wr.ok

\* C6 as amended: a recomputed length that differs from the stored one is
\* printed next to it and the call goes on: the check does not end the call,
\* and the length field written is the recomputed length.
C6_MismatchReported ==
    mode = "encode"
        => \A k \in 1..Len(wr.log) :
               (Mismatch(wr.log[k]) /\ wr.log[k].field # <<>>)
                   => /\ wr.log[k].returned
                      /\ wr.log[k].field = PackInt(wr.log[k].counted)
                      /\ \E j \in 1..Len(wr.printed) :
                             wr.printed[j] = <<wr.log[k].counted, wr.log[k].stored>>

\* a file has been written although the struct_size of an array of structs
\* differed from the stored one: the pair was printed, the recomputed length
\* written
C6_Witness ==
    /\ mode = "encode" /\ epc = "done" /\ wr.ok
    /\ \E k \in 1..Len(wr.log) :
           /\ Mismatch(wr.log[k]) /\ wr.log[k].kind = "struct"
           /\ wr.log[k].field = PackInt(wr.log[k].counted)
           /\ \E j \in 1..Len(wr.printed) :
                  wr.printed[j] = <<wr.log[k].counted, wr.log[k].stored>>

PropertyTypes ==
    {S_IntProperty, S_BoolProperty, S_FloatProperty, S_StrProperty, S_NameProperty,
     S_TextProperty, S_ByteProperty, S_EnumProperty, S_ObjectProperty, S_StructProperty,
     S_ArrayProperty, S_MapProperty}

StructTypes ==
    {S_Vector, S_Rotator, S_Box, S_LinearColor, S_Transform, S_Quat,
     S_RemovedInstanceArray, S_InventoryStack, S_InventoryItem}

ItemTypes == {S_IntProperty, S_ObjectProperty, S_StructProperty}

\* the property carries a type tag, struct type or item type outside the
\* known sets
UnknownTag(p) ==
    /\ HasAll(p, {"type", "value"})
    /\ \/ p.type \notin PropertyTypes
       \/ p.type = S_StructProperty /\ p.value.type \notin StructTypes
       \/ p.type = S_ArrayProperty /\ p.value.type \notin ItemTypes

\* C7: once an entity with an unknown property type tag, struct type or item
\* type has been handled, the encode call has failed.
C7_UnknownTag ==
    (EntityWritten /\ \E k \in 1..Len(LastWritten) : UnknownTag(LastWritten[k]))
        => ~wr.ok

\* C8: a file that ends before its last field is complete is not decoded, and
\* the trailing bytes of a decoded entity are as many as the residual.
C8_Truncation ==
    /\ (mode = "decode" /\ input.cut > 0) => dpc # "done"
    /\ (mode = "decode" /\ dpc \in {"entities", "done"} /\ di >= 1
        /\ Has(LastDecoded.entity, "missing"))
           => HexLen(LastDecoded.entity.missing) = rd.missing

\* C9: a ByteProperty that was decoded is written back by write_property as
\* the bytes it was read from.
C9_ByteProperty ==
    (mode = "decode" /\ dpc = "done")
        => \A k \in 1..Len(rd.plog) :
               rd.plog[k].type = S_ByteProperty
                   => LET w == write_property(NewWriter, rd.plog[k].property)
                      IN  /\ w.ok
                          /\ w.out = SubSeq(file, rd.plog[k].from + 1, rd.plog[k].to)

\* sub occurs in seq as a run of consecutive elements
Occurs(sub, seq) ==
    \E i \in 0..(Len(seq) - Len(sub)) : SubSeq(seq, i + 1, i + Len(sub)) = sub

\* C10: the inner property of an InventoryItem adds 4 to the counted length
\* of the struct's frame, which is the length the frame is closed with, though
\* the property put more bytes into the frame; all of them are in the file.
C10_InventoryItem ==
    mode = "encode"
        => \A k \in 1..Len(wr.log) :
               wr.log[k].kind = "item"
                   => /\ wr.log[k].after = wr.log[k].oldval + 4
                      /\ k < Len(wr.log) => wr.log[k + 1].counted = wr.log[k].oldval + 4
                      /\ Len(wr.log[k].inner) > 4
                      /\ wr.log[k].inner = write_property(NewWriter, wr.log[k].property).out
                      /\ epc = "done" => Occurs(wr.log[k].inner, wr.out)

\* a file with an InventoryItem has been written whose inner property is a
\* StrProperty
C10_Witness ==
    /\ mode = "encode" /\ epc = "done"
    /\ \E k \in 1..Len(wr.log) :
           /\ wr.log[k].kind = "item"
           /\ wr.log[k].property.type = S_StrProperty
           /\ Occurs(wr.log[k].inner, wr.out)

\* the entries of the decoder's history that are InventoryItem structs
IsItem(e) == e.type = S_StructProperty /\ e.property.value.type = S_InventoryItem

\* C11: an InventoryItem that was decoded holds exactly one inner property,
\* and the None sentinel that follows it is still in the stream behind it:
\* reading the item has consumed no sentinel.
C11_ItemSentinel ==
    (mode = "decode" /\ input.cut = 0)
        => \A k \in 1..Len(rd.plog) :
               IsItem(rd.plog[k])
                   => /\ Len(rd.plog[k].property.value.properties) = 1
                      /\ SubSeq(file, rd.plog[k].to + 1, rd.plog[k].to + Len(B_None))
                             = B_None

\* the property p of a document is an InventoryItem struct
IsItemDict(p) ==
    /\ HasAll(p, {"type", "value"}) /\ p.type = S_StructProperty
    /\ Has(p.value, "type") /\ p.value.type = S_InventoryItem

\* the reader r has decoded the property p
Reproduced(r, p) == r.ok /\ r.more /\ r.val = p

\* C12: an InventoryItem struct the encoder has written is decoded from the
\* bytes written as the property of the document it was written from.
C12_ItemRoundTrip ==
    (EntityWritten /\ wr.ok)
        => \A k \in 1..Len(LastWritten) :
               IsItemDict(LastWritten[k])
                   => Reproduced(read_property(NewReader(
                                     write_property(NewWriter, LastWritten[k]).out)),
                                 LastWritten[k])

\* the property p of a document is an array of structs
IsStructArray(p) ==
    /\ HasAll(p, {"name", "type", "value"}) /\ p.type = S_ArrayProperty
    /\ Has(p.value, "type") /\ p.value.type = S_StructProperty

\* the number of bytes write_property puts before the struct_size of p
StructSizeAt(p) ==
    Len(B_Str(p.name)) + Len(B_Str(p.type)) + 4 + 4 + Len(B_Str(p.value.type)) + 1 + 4
    + Len(B_Str(p.struct_name)) + Len(B_Str(p.struct_type))

\* the struct_size in the bytes out written for the array of structs p
StructSizeField(p, out) == SubSeq(out, StructSizeAt(p) + 1, StructSizeAt(p) + 4)

RECURSIVE ElementBytes(_)
\* the number of bytes of the property lists of the elements, each with its
\* None sentinel
ElementBytes(values) ==
    IF values = <<>> THEN 0
    ELSE Len(write_none(WritePropertyList(NewWriter, Head(values).properties)).out)
         + ElementBytes(Tail(values))

\* C13: the struct_size written for an array of structs is the number of
\* bytes of the property lists of its elements, each with its None sentinel,
\* and of nothing else.
C13_StructSize ==
    (EntityWritten /\ wr.ok)
        => \A k \in 1..Len(LastWritten) :
               IsStructArray(LastWritten[k])
                   => StructSizeField(LastWritten[k],
                                      write_property(NewWriter, LastWritten[k]).out)
                          = PackInt(ElementBytes(LastWritten[k].value.values))

\* a file with an array of two structs has been written, one of them holding
\* an InventoryItem, whose inner property is not counted in full in its own
\* frame
C13_Witness ==
    /\ EntityWritten /\ epc = "done" /\ wr.ok
    /\ \E k \in 1..Len(LastWritten) :
           /\ IsStructArray(LastWritten[k])
           /\ Len(LastWritten[k].value.values) = 2
           /\ IsItemDict(LastWritten[k].value.values[2].properties[1])
           /\ Occurs(PackInt(ElementBytes(LastWritten[k].value.values)), wr.out)

\* the number of bytes of out behind the struct_size of p
AfterStructSize(p, out) == Len(out) - StructSizeAt(p) - 4

\* the bytes between the struct_size of p and its first element: the
\* reserved i32, the inner type and the 17 unknown bytes
StructPrelude(p) == 4 + Len(B_Str(p.structInnerType)) + 17

\* C14 as claimed: the struct_size written for an array of structs is the
\* number of all bytes that follow it up to and including the last None.
C14_StructSizeAll ==
    (EntityWritten /\ wr.ok)
        => \A k \in 1..Len(LastWritten) :
               IsStructArray(LastWritten[k])
                   => StructSizeField(LastWritten[k],
                                      write_property(NewWriter, LastWritten[k]).out)
                          = PackInt(AfterStructSize(LastWritten[k],
                                        write_property(NewWriter, LastWritten[k]).out))

\* C14 as amended: the struct_size is the number of the bytes that follow it
\* up to and including the last None, less the reserved i32, the inner type
\* string and the 17 unknown bytes, which follow it and are not counted.
C14_StructSizeRest ==
    (EntityWritten /\ wr.ok)
        => \A k \in 1..Len(LastWritten) :
               IsStructArray(LastWritten[k])
                   => StructSizeField(LastWritten[k],
                                      write_property(NewWriter, LastWritten[k]).out)
                          = PackInt(AfterStructSize(LastWritten[k],
                                        write_property(NewWriter, LastWritten[k]).out)
                                    - StructPrelude(LastWritten[k]))

\* a file with an array of structs has been written: 27 bytes follow its
\* struct_size before the first element, and the struct_size is the number
\* of the bytes behind them
C14_Witness ==
    /\ EntityWritten /\ epc = "done" /\ wr.ok
    /\ \E k \in 1..Len(LastWritten) :
           /\ IsStructArray(LastWritten[k])
           /\ StructPrelude(LastWritten[k]) = 27
           /\ LastWritten[k].value.values # <<>>
           /\ StructSizeField(LastWritten[k],
                              write_property(NewWriter, LastWritten[k]).out)
                  = PackInt(AfterStructSize(LastWritten[k],
                                write_property(NewWriter, LastWritten[k]).out) - 27)

\* the property p of a document is a MapProperty
IsMap(p) ==
    /\ HasAll(p, {"name", "type", "value"}) /\ p.type = S_MapProperty
    /\ HasAll(p.value, {"name", "type", "values"})

\* the number of bytes write_property puts before the five zero bytes of the
\* MapProperty p: name, type tag, length, reserved i32 and the two strings
MapZerosAt(p) ==
    Len(B_Str(p.name)) + Len(B_Str(p.type)) + 4 + 4
    + Len(B_Str(p.value.name)) + Len(B_Str(p.value.type))

\* the length field in the bytes out written for the property p
LengthField(p, out) ==
    SubSeq(out, Len(B_Str(p.name)) + Len(B_Str(p.type)) + 1,
           Len(B_Str(p.name)) + Len(B_Str(p.type)) + 4)

RECURSIVE EntryBytes(_)
\* per entry: 4 bytes of key and the bytes of its property list with None
EntryBytes(items) ==
    IF items = <<>> THEN 0
    ELSE 4 + Len(write_none(WritePropertyList(NewWriter, Head(items).value)).out)
         + EntryBytes(Tail(items))

\* the bytes out written for the MapProperty p: five zero bytes behind the two
\* strings, then the count, then the entries and nothing else; the length
\* field counts 4 of the zero bytes, the count and the entries; the decoder
\* accepts the bytes
MapLayout(p, out) ==
    /\ SubSeq(out, MapZerosAt(p) + 1, MapZerosAt(p) + 5) = <<0, 0, 0, 0, 0>>
    /\ SubSeq(out, MapZerosAt(p) + 6, MapZerosAt(p) + 9) = PackInt(Len(p.value.values))
    /\ Len(out) = MapZerosAt(p) + 9 + EntryBytes(p.value.values)
    /\ LengthField(p, out) = PackInt(4 + 4 + EntryBytes(p.value.values))
    /\ read_property(NewReader(out)).ok

\* C15: a MapProperty is written with five zero bytes between its two type
\* strings and its count, and its length field is 4 + 4 + the bytes of the
\* entries (4 per key, and the property list with its None).
C15_MapLength ==
    (EntityWritten /\ wr.ok)
        => \A k \in 1..Len(LastWritten) :
               IsMap(LastWritten[k])
                   => MapLayout(LastWritten[k],
                                write_property(NewWriter, LastWritten[k]).out)

\* a file with a MapProperty of two entries has been written
C15_Witness ==
    /\ EntityWritten /\ epc = "done" /\ wr.ok
    /\ \E k \in 1..Len(LastWritten) :
           /\ IsMap(LastWritten[k])
           /\ Len(LastWritten[k].value.values) = 2
           /\ Occurs(<<0, 0, 0, 0, 0>> \o PackInt(2), wr.out)

\* the call made last in a sequence of calls
LastCall == input.calls[ei]

\* the frame on top of the stack of w
TopFrame(w) == w.buffers[Len(w.buffers)]

\* C16: write_length_prefixed_string puts into the sink the i32 0 for the
\* empty value and the i32 len + 1, the characters and one zero byte for any
\* other ASCII value; the counted length of the frame written into grows by
\* the number of these bytes when count is True and stays when it is False.
C16_StringWrite ==
    [][(CallString /\ IsAscii(NextCall.bytes))
          => /\ wr'.ok
             /\ IF Len(wr.buffers) = 0
                THEN /\ wr'.out = wr.out \o B_Str(NextCall.bytes)
                     /\ wr'.buffers = <<>>
                ELSE /\ wr'.out = wr.out
                     /\ Len(wr'.buffers) = Len(wr.buffers)
                     /\ TopFrame(wr').bytes
                            = TopFrame(wr).bytes \o B_Str(NextCall.bytes)
                     /\ Flatten(TopFrame(wr').buffer) = TopFrame(wr').bytes
                     /\ TopFrame(wr').length
                            = TopFrame(wr).length
                              + (IF NextCall.count THEN Len(B_Str(NextCall.bytes))
                                 ELSE 0)]_vars

\* the string "AB" has been written with count=True into an empty frame
C16_Witness ==
    /\ mode = "calls" /\ ei >= 1 /\ wr.ok
    /\ LastCall = Call("string", <<65, 66>>, TRUE)
    /\ Len(wr.buffers) = 1
    /\ TopFrame(wr).bytes = <<3, 0, 0, 0, 65, 66, 0>>
    /\ TopFrame(wr).length = 7

RECURSIVE OpenFrames(_, _)
\* the number of frames open after the first n calls of calls, each
\* end_buffer_and_write_size closing one frame
OpenFrames(calls, n) ==
    IF n = 0 THEN 0
    ELSE OpenFrames(calls, n - 1)
         + (IF calls[n].op = "add" THEN 1 ELSE IF calls[n].op = "end" THEN -1 ELSE 0)

\* C17: a call of end_buffer_and_write_size with a frame open returns, and
\* the stack is then one frame less deep than before the call.
C17_ClosesTopFrame ==
    (mode = "calls" /\ ei >= 1 /\ LastCall.op = "end"
     /\ OpenFrames(input.calls, ei - 1) >= 1)
        => /\ wr.ok
           /\ Len(wr.buffers) = OpenFrames(input.calls, ei - 1) - 1

\* the block begins with an i32 that is the number of the bytes after it
PrefixCounts(out) == Len(out) >= 4 /\ SubSeq(out, 1, 4) = PackInt(Len(out) - 4)

\* the block was written and its prefix is the length sav2json read
Redeclared(w) == w.ok /\ PrefixCounts(w.out) /\ SubSeq(w.out, 1, 4) = PackInt(length)

\* C18: the length write_entity puts before an entity is the number of bytes
\* that follow it in the block, and for an entity as sav2json decoded it from
\* a valid file it is the length the file declared for the entity.
C18_EntityPrefix ==
    /\ (EntityWritten /\ wr.ok)
          => PrefixCounts(write_entity(NewWriter, save_json.objects[ei].type = 1,
                                       save_json.objects[ei].entity).out)
    /\ (ValidInput /\ dpc = "entities" /\ di >= 1)
          => Redeclared(write_entity(NewWriter, LastDecoded.type = 1, LastDecoded.entity))

\* C19: when read_length_prefixed_string has accepted the string at the start
\* of the file, write_length_prefixed_string of the value it returned puts
\* out the bytes that were read, as many as bytesRead counted.
C19_StringRoundTrip ==
    (mode = "string" /\ dpc = "read" /\ epc # "string")
        => /\ wr.ok
           /\ wr.out = SubSeq(file, 1, rd.pos)
           /\ Len(wr.out) = rd.bytesRead

\* the count field of the MapProperty that the entry e of the reader's
\* history stands for, as it is in the file
CountOnDisk(e) ==
    SubSeq(file, e.from + MapZerosAt(e.property) + 6, e.from + MapZerosAt(e.property) + 9)

\* C20: a MapProperty decoded from a valid file holds as many entries as the
\* count in the file says, and write_property of the decoded property gives
\* back the bytes of the property in the file.
C20_MapRoundTrip ==
    ValidInput
        => \A k \in 1..Len(rd.plog) :
               rd.plog[k].type = S_MapProperty
                   => /\ PackInt(Len(rd.plog[k].property.value.values))
                            = CountOnDisk(rd.plog[k])
                      /\ write_property(NewWriter, rd.plog[k].property).out
                            = SubSeq(file, rd.plog[k].from + 1, rd.plog[k].to)

\* the keys of the header in save_dict and in saveJson
HeaderKeys ==
    {<<"save_header_type", "saveHeaderType">>, <<"save_version", "saveVersion">>,
     <<"build_version", "buildVersion">>, <<"map_name", "mapName">>,
     <<"map_options", "mapOptions">>, <<"session_name", "sessionName">>,
     <<"play_duration_seconds", "playDurationSeconds">>,
     <<"save_date_time", "saveDateTime">>,
     <<"session_visibility", "sessionVisibility">>}

\* d is the document j but for the spelling of the header keys
SameDocument(d, j) ==
    /\ DOMAIN d = {k[1] : k \in HeaderKeys} \cup {"objects", "missing"}
    /\ DOMAIN j = {k[2] : k \in HeaderKeys} \cup {"objects", "missing"}
    /\ \A k \in HeaderKeys : d[k[1]] = j[k[2]]
    /\ d.objects = j.objects
    /\ d.missing = j.missing

\* C21: on a file that sav2json decodes, to_py returns, and the document it
\* returns has the header values, the objects with their entities and the
\* trailing bytes of the document of sav2json.
C21_LibraryEquivalent ==
    (mode = "library" /\ dpc = "done" /\ ppc # "call")
        => ppc = "returned" /\ SameDocument(save_dict, saveJson)

=============================================================================
